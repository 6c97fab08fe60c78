--------------------------- MODULE RequestPipeline ---------------------------
(***************************************************************************)
(* One request on its way through the middleware of the REST sequence      *)
(* (packages/rest/src/sequence.ts, packages/express) and the interceptors  *)
(* of the controller method (packages/context/src/interceptor*.ts).  Both  *)
(* are chains of the same class: a function gets a `next` that invokes the *)
(* one after it.                                                           *)
(*                                                                         *)
(* The functions are numbered: 1..Method is the middleware chain, from     *)
(* sendResponse to invokeMethod; Method+1..Target is the method's chain,   *)
(* which ends with the invoker of the method itself.  0 is the sequence.   *)
(***************************************************************************)
EXTENDS Naturals, FiniteSets, SequencesExt

CONSTANTS
  Method,     \* the position of the middleware invokeMethod
  Target,     \* the position of the method
  Express,    \* positions of Express handlers in the middleware chain
  MaxNext,    \* how often a function of the user may call next()
  MaxWrites   \* bound on the writes of functions of the user

Send == 1     \* sendResponse comes first
Functions == 1..Target
Users == Functions \ {Send, Method, Target}
Others == Users \ Express

ASSUME PipelineAssumption ==
  /\ Method \in Nat /\ Target \in Nat
  /\ MaxNext \in Nat \ {0} /\ MaxWrites \in Nat
  /\ 1 < Method /\ Method < Target
  /\ Express \subseteq 2..(Method - 1)

END == 0      \* what next() comes to after the last function of a chain

VARIABLES
  index,      \* per chain: the last function that was invoked
  step,       \* what each function is doing
  calls,      \* what each of its next() calls invoked
  runs,       \* how often each was invoked
  hasty,      \* the functions that did not wait for what they had invoked
  closed,     \* how often the context of the method's invocation was closed
  written     \* who wrote, or tried to write, the response, in order

vars == <<index, step, calls, runs, hasty, closed, written>>

(* A chain: the sequence invokes the first, invokeMethod the second.       *)
Chains == {"middleware", "method"}
ChainOf(i) == IF i < Method THEN "middleware" ELSE "method"
LastOf == [middleware |-> Method, method |-> Target]
Members(c) == IF c = "middleware" THEN 1..Method ELSE (Method + 1)..Target

(* The result of a function is a value, the response object or an error.   *)
Settled == {"ok", "response", "error"}
HeadersSent == written # <<>>

Init ==
  /\ index = [middleware |-> 0, method |-> Method]
  /\ step = [i \in 0..Target |-> IF i = 0 THEN "running" ELSE "idle"]
  /\ calls = [i \in 0..Target |-> <<>>]
  /\ runs = [i \in Functions |-> 0]
  /\ hasty = {}
  /\ closed = 0
  /\ written = <<>>

(*-------------------------------------------------------------------------*)
(* GenericInterceptorChain                                                 *)
(*-------------------------------------------------------------------------*)

(* Mutant: each function's next() is the function after it.                *)
FollowingFunction(i) ==
  IF i = LastOf[ChainOf(i)] /\ i # Method THEN END ELSE i + 1

(* next(): the state of an invocation has one index, whoever calls.  The   *)
(* final handler of both chains returns undefined.                         *)
Following(i) ==
  LET c == ChainOf(i) IN IF index[c] = LastOf[c] THEN END ELSE index[c] + 1

(* The function is there at once, or has to be resolved from its binding.  *)
CallNext(i, at) ==
  LET j == Following(i) IN
  /\ calls' = [calls EXCEPT ![i] = Append(@, j)]
  /\ IF j = END THEN UNCHANGED <<index, step, runs>>
     ELSE /\ index' = [index EXCEPT ![ChainOf(i)] = j]
          /\ step' = [step EXCEPT ![j] = at]
          /\ runs' = [runs EXCEPT ![j] = @ + 1]

(* The sequence, sendResponse and invokeMethod call once; a function of    *)
(* the user as often as it likes, at any time while it runs.               *)
Next1(i, at) ==
  /\ step[i] = "running"
  /\ i \in {0, Send, Method} /\ calls[i] = <<>>
  /\ CallNext(i, at)
  /\ UNCHANGED <<hasty, closed, written>>

UserNext(i, at) ==
  /\ step[i] = "running"
  /\ i \in Others
  /\ Len(calls[i]) < MaxNext
  /\ CallNext(i, at)
  /\ UNCHANGED <<hasty, closed, written>>

Load(i, at) ==
  /\ step[i] = "loading"
  /\ step' = [step EXCEPT ![i] = at]
  /\ UNCHANGED <<index, calls, runs, hasty, closed, written>>

Callees(i) == ToSet(calls[i]) \ {END}
Waiting(i) == \E j \in Callees(i) : step[j] \notin Settled

(* Mutant: a function that did not call next() is passed over.             *)
SettleAndProceed(i, how) ==
  /\ step[i] = "running"
  /\ i \in Others \cup {Target}
  /\ IF calls[i] = <<>> /\ Following(i) # END
     THEN /\ step' = [step EXCEPT ![i] = how, ![Following(i)] = "running"]
          /\ index' = [index EXCEPT ![ChainOf(i)] = Following(i)]
          /\ runs' = [runs EXCEPT ![Following(i)] = @ + 1]
     ELSE step' = [step EXCEPT ![i] = how] /\ UNCHANGED <<index, runs>>
  /\ UNCHANGED <<calls, hasty, closed, written>>

(* A function of the user settles in either way, whether what it invoked   *)
(* has settled or not.  The method does, too.                              *)
Settle(i, how) ==
  /\ step[i] = "running"
  /\ i \in Others \cup {Target}
  /\ step' = [step EXCEPT ![i] = how]
  /\ hasty' = IF Waiting(i) THEN hasty \cup {i} ELSE hasty
  /\ UNCHANGED <<index, calls, runs, closed, written>>

(*-------------------------------------------------------------------------*)
(* Middleware                                                              *)
(*-------------------------------------------------------------------------*)

(* A function of the user, or the method, writes the response: while it    *)
(* runs, or later if it has returned the response.  Nobody is kept from    *)
(* writing what another one has written before.                            *)
Write(i) ==
  /\ i \in Users \cup {Target}
  /\ step[i] \in {"running", "response"}
  /\ i \notin ToSet(written) /\ Len(written) < MaxWrites
  /\ written' = Append(written, i)
  /\ UNCHANGED <<index, step, calls, runs, hasty, closed>>

(* An Express handler calls its `next`, or fails, or the response has been *)
(* finished, whoever wrote it: the race of these decides.                  *)
HandlerProceeds(i, at) ==
  /\ step[i] = "running"
  /\ i \in Express /\ calls[i] = <<>>
  /\ CallNext(i, at)
  /\ UNCHANGED <<hasty, closed, written>>

HandlerFails(i) ==
  /\ step[i] = "running"
  /\ i \in Express /\ calls[i] = <<>>
  /\ step' = [step EXCEPT ![i] = "error"]
  /\ UNCHANGED <<index, calls, runs, hasty, closed, written>>

(* The response is returned "to indicate" that it "has been produced".     *)
HandlerFinishes(i) ==
  /\ step[i] = "running"
  /\ i \in Express /\ calls[i] = <<>>
  /\ HeadersSent
  /\ step' = [step EXCEPT ![i] = "response"]
  /\ UNCHANGED <<index, calls, runs, hasty, closed, written>>

(* An Express handler's wrapper passes on what its `next` came to.         *)
HandlerReturns(i) ==
  /\ step[i] = "running"
  /\ i \in Express /\ calls[i] # <<>> /\ ~Waiting(i)
  /\ step' = [step EXCEPT ![i] =
                IF calls[i][1] = END THEN "ok" ELSE step[calls[i][1]]]
  /\ UNCHANGED <<index, calls, runs, hasty, closed, written>>

(* Mutant: it is closed when the chain has returned, settled or not.       *)
CloseEarly ==
  /\ step[Method] = "running"
  /\ calls[Method] # <<>>
  /\ closed' = closed + 1
  /\ step' = [step EXCEPT ![Method] = "ok"]
  /\ UNCHANGED <<index, calls, runs, hasty, written>>

(* invokeMethod: the context of the invocation is closed when the chain    *)
(* has settled, and the result is passed on.                               *)
CloseInvocation ==
  /\ step[Method] = "running"
  /\ calls[Method] # <<>> /\ ~Waiting(Method)
  /\ closed' = closed + 1
  /\ step' = [step EXCEPT ![Method] = step[calls[Method][1]]]
  /\ UNCHANGED <<index, calls, runs, hasty, written>>

Result == step[calls[Send][1]]

(* Mutant: the result is not awaited.                                      *)
SendSoon ==
  /\ step[Send] = "running"
  /\ calls[Send] # <<>>
  /\ written' = IF Result = "response" \/ HeadersSent THEN written
                ELSE Append(written, Send)
  /\ step' = [step EXCEPT ![Send] = "ok"]
  /\ UNCHANGED <<index, calls, runs, hasty, closed>>

(* Mutant: an error is not caught.                                         *)
SendResult ==
  /\ step[Send] = "running"
  /\ calls[Send] # <<>> /\ ~Waiting(Send) /\ Result # "error"
  /\ written' = IF Result = "response" \/ HeadersSent THEN written
                ELSE Append(written, Send)
  /\ step' = [step EXCEPT ![Send] = "ok"]
  /\ UNCHANGED <<index, calls, runs, hasty, closed>>

(* sendResponse: send() the result, unless it is the response itself or    *)
(* the headers have been sent; or reject() an error, which may be one of   *)
(* send() and is not written either after the headers.                     *)
SendResponse ==
  /\ step[Send] = "running"
  /\ calls[Send] # <<>> /\ ~Waiting(Send)
  /\ written' = IF Result = "response" \/ HeadersSent THEN written
                ELSE Append(written, Send)
  /\ step' = [step EXCEPT ![Send] = "ok"]
  /\ UNCHANGED <<index, calls, runs, hasty, closed>>

(* The sequence ends.  If it could not even invoke sendResponse, the error *)
(* handler of the Express application writes the response.                 *)
SequenceEnds ==
  /\ step[0] = "running"
  /\ calls[0] # <<>> /\ ~Waiting(0)
  /\ step' = [step EXCEPT ![0] = step[Send]]
  /\ written' = IF step[Send] = "ok" \/ HeadersSent THEN written ELSE Append(written, 0)
  /\ UNCHANGED <<index, calls, runs, hasty, closed>>

(*-------------------------------------------------------------------------*)

Arrivals == {"loading", "running"}

Proceed ==
  \/ \E i \in {0, Send, Method}, at \in Arrivals : Next1(i, at)
  \/ \E i \in Functions, at \in {"running", "error"} : Load(i, at)
  \/ \E i \in Others \cup {Target}, how \in Settled : Settle(i, how)
  \/ \E i \in Express, at \in Arrivals : HandlerProceeds(i, at)
  \/ \E i \in Express : HandlerFails(i) \/ HandlerFinishes(i) \/ HandlerReturns(i)
  \/ CloseInvocation
  \/ SendResponse
  \/ SequenceEnds

Next ==
  \/ Proceed
  \/ \E i \in Others, at \in Arrivals : UserNext(i, at)
  \/ \E i \in Users \cup {Target} : Write(i)

(* Code of the user is assumed to settle; nobody has to call next(), or to *)
(* write anything.                                                         *)
Spec == Init /\ [][Next]_vars /\ WF_vars(Proceed)
-----------------------------------------------------------------------------
TypeOK ==
  /\ index \in [Chains -> 0..Target]
  /\ step \in [0..Target -> {"idle", "loading", "running"} \cup Settled]
  /\ calls \in [0..Target -> Seq(0..Target)]
  /\ runs \in [Functions -> Nat]
  /\ hasty \subseteq Functions
  /\ closed \in Nat
  /\ written \in Seq(0..Target)

(* The framework answers last: it does not write after anybody else, and   *)
(* when it has written, nobody whose turn it was before writes any more,   *)
(* whatever functions call, skip, throw or return.  Except for one that a  *)
(* function before it did not wait for, and one that had returned the      *)
(* response itself and writes it later.                                    *)
AnswersLast ==
  \A m, n \in DOMAIN written :
    m < n =>
      /\ written[n] \notin {0, Send}
      /\ written[m] \in {0, Send} =>
           \/ \E h \in hasty : h < written[n]
           \/ step[written[n]] = "response"

(* Every request is answered, also if functions fail, do not call next()   *)
(* or do not wait for it; or what sendResponse got was the response, which *)
(* is for the function to write that has returned it.                      *)
LeftToUser == step[Send] = "ok" /\ Result = "response"
Answered == <>(HeadersSent \/ LeftToUser)

(* A function runs at most once per request, the method among them: to     *)
(* call next() again does not repeat what has been done.                   *)
RunsOnce == \A i \in Functions : runs[i] <= 1

(* "If next() is not invoked, neither downstream interceptors nor the      *)
(* target method be executed": so it is unless a function before it called *)
(* next() twice.                                                           *)
Skips(i) == i \in Users /\ step[i] \in Settled /\ calls[i] = <<>>
After(i) == {j \in Members(ChainOf(i)) : j > i}
Repeats(i) == \E j \in Members(ChainOf(i)) : j < i /\ Len(calls[j]) > 1
SkipIsRespected ==
  \A i \in Functions :
    Skips(i) /\ ~Repeats(i) => \A j \in After(i) : runs[j] = 0

(* The same without the condition, as docs/site/Interceptor.md has it.     *)
NobodyIsBypassed ==
  \A i \in Functions : Skips(i) /\ step[i] = "ok" => \A j \in After(i) : runs[j] = 0

(* The context of an invocation is closed once, and nothing of it runs any *)
(* more, if its interceptors wait for what they invoke.                    *)
ClosedLast ==
  /\ closed <= 1
  /\ closed = 1 /\ hasty \cap Members("method") = {} =>
       \A i \in Members("method") : step[i] \in {"idle"} \cup Settled
=============================================================================
