------------------------ MODULE MCLifeCycleRegistry ------------------------
(* Values for model checking LifeCycleRegistry.                            *)
EXTENDS LifeCycleRegistry

CONSTANTS o1, o2, o3, o4

Alphabetical == <<"", "ds", "server", "zz">>

(* Observers that carry their group as the tag of observer groups.         *)
ThreeGroups == (o1 :> "ds") @@ (o2 :> "server") @@ (o3 :> "ds") @@ (o4 :> "zz")
TwoGroups == (o1 :> "ds") @@ (o2 :> "server") @@ (o3 :> "ds")
NoTags == [o \in Observers |-> {}]

(* An observer without group, and a server as Application.server binds it: *)
(* `server` is one of its plain tags.                                      *)
NoGroups == [o \in Observers |-> ""]
PlainServer == (o1 :> {}) @@ (o2 :> {"server"})

ServerLast == <<"server">>
ServerFirst == <<"server", "ds">>
Orderings == {ServerLast, ServerFirst}

OptionsFrom(orders, disabled, parallel) ==
  [orderedGroups : orders, disabledGroups : disabled, parallel : parallel]
AllOptions == OptionsFrom(Orderings, {{}, {"zz"}}, BOOLEAN)
ParallelOptions == OptionsFrom(Orderings, {{}}, {TRUE})
DefaultOptions == OptionsFrom({ServerLast}, {{}}, {TRUE})

=============================================================================
