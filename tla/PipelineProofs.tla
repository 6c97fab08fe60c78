---------------------------- MODULE PipelineProofs ----------------------------
(***************************************************************************)
(* Proofs about RequestPipeline, for chains of any length, any positions   *)
(* of Express handlers and any number of calls of next().                  *)
(***************************************************************************)
EXTENDS RequestPipeline, SequenceLemmas

(* The chain that a function belongs to; ChainOf is the one that it calls. *)
Home(i) == IF i <= Method THEN "middleware" ELSE "method"

Active(i) == step[i] \in Arrivals

(* What has run is what comes up to the index, ...                         *)
Indexed ==
  /\ index["middleware"] \in 0..Method /\ index["method"] \in Method..Target
  /\ \A i \in Functions :
       /\ i <= index[Home(i)] => runs[i] = 1
       /\ i > index[Home(i)] => runs[i] = 0 /\ step[i] = "idle"

(* ... and the index gets past a function that has not called next() only  *)
(* when one before it called next() twice.                                 *)
Fed ==
  \A i \in 0..Target :
    calls[i] = <<>> /\ i < index[ChainOf(i)] =>
      \E j \in Members(ChainOf(i)) : j < i /\ Len(calls[j]) > 1

(* The caller of a chain invokes its first function, and nothing else.     *)
Entered == \A i \in {0, Method} : calls[i] \in {<<>>, <<i + 1>>}

(* Who works was called by one before it that waits for it, or that did    *)
(* not wait.                                                               *)
Before(i) == (IF i > Method THEN Method ELSE 0)..(i - 1)
Awaited ==
  \A i \in Functions :
    Active(i) => \E k \in Before(i) :
                   i \in Callees(k) /\ (step[k] = "running" \/ k \in hasty)

Closed ==
  /\ hasty \subseteq Others \cup {Target}
  /\ closed \in {0, 1}
  /\ closed = 1 => step[Method] \in Settled

(* When the framework has written, sendResponse is done.                   *)
Sent == \A n \in DOMAIN written : written[n] \in {0, Send} => step[Send] \in Settled

IInv ==
  /\ TypeOK /\ Indexed /\ Fed /\ Entered /\ Awaited /\ Closed
  /\ Sent /\ AnswersLast

-----------------------------------------------------------------------------

(* Where the functions are.                                                *)
LEMMA Layout ==
  /\ Method \in Nat /\ Target \in Nat /\ 1 < Method /\ Method < Target
  /\ LastOf["middleware"] = Method /\ LastOf["method"] = Target
  /\ \A i \in Functions \ {Method} : Home(i) = ChainOf(i)
  /\ \A i \in Functions : i \in Members(Home(i)) /\ Home(i) \in Chains
  /\ \A i \in 0..Target : ChainOf(i) \in Chains
  /\ \A c \in Chains : Members(c) \subseteq Functions
  /\ \A i \in Members("method") : Home(i) = "method" /\ i > Method
  /\ Others \subseteq Functions \ {Send, Method, Target}
  /\ Express \subseteq Functions \ {Send, Method, Target}
  /\ Home(Method) = "middleware" /\ ChainOf(Method) = "method" /\ ChainOf(0) = "middleware"
BY PipelineAssumption
   DEF Functions, Home, ChainOf, Members, Chains, LastOf, Others, Users, Send

LEMMA InitIInv == Init => IInv
<1> SUFFICES ASSUME Init PROVE IInv
  OBVIOUS
<1>1. TypeOK
  BY Layout, EmptySeq DEF Init, TypeOK, Chains, Settled, Functions
<1>2. Indexed
  BY Layout DEF Init, Indexed, Functions, Home
<1>3. Fed
  BY Layout DEF Init, Fed, ChainOf
<1>4. Entered /\ Awaited
  BY Layout DEF Init, Entered, Awaited, Active, Arrivals, Functions
<1>5. Closed /\ Sent /\ AnswersLast
  BY Layout DEF Init, Closed, Sent, AnswersLast
<1> QED BY <1>1, <1>2, <1>3, <1>4, <1>5 DEF IInv

-----------------------------------------------------------------------------

(* What next() adds to the calls of its caller.                            *)
LEMMA CallAdded ==
  ASSUME TypeOK, NEW k \in 0..Target, NEW j \in 0..Target,
         calls' = [calls EXCEPT ![k] = Append(@, j)]
  PROVE  /\ calls' \in [0..Target -> Seq(0..Target)]
         /\ \A i \in 0..Target : i # k => calls'[i] = calls[i]
         /\ calls'[k] # <<>> /\ (calls[k] = <<>> => calls'[k] = <<j>>)
         /\ Len(calls'[k]) = Len(calls[k]) + 1
         /\ \A i \in 0..Target : Len(calls[i]) \in Nat
         /\ \A i \in 0..Target : Callees(i) \subseteq Callees(i)'
         /\ j # END => j \in Callees(k)'
         /\ calls[k] # <<>> => Len(calls'[k]) > 1
<1>1. calls \in [0..Target -> Seq(0..Target)]
  BY DEF TypeOK
<1>2. calls[k] \in Seq(0..Target)
  BY <1>1
<1>3. /\ calls'[k] = Append(calls[k], j)
      /\ \A i \in 0..Target : i # k => calls'[i] = calls[i]
  BY <1>1
<1>4. /\ Append(calls[k], j) \in Seq(0..Target)
      /\ Len(Append(calls[k], j)) = Len(calls[k]) + 1
      /\ \A n \in 1..Len(calls[k]) : Append(calls[k], j)[n] = calls[k][n]
      /\ Append(calls[k], j)[Len(calls[k]) + 1] = j
      /\ Len(calls[k]) \in Nat
  BY <1>2, AppendProperties, LenProperties
<1>5. calls[k] = <<>> <=> Len(calls[k]) = 0
  BY <1>2, EmptySeq
<1>6. calls' \in [0..Target -> Seq(0..Target)]
  BY <1>1, <1>4
<1>7. \A i \in 0..Target : Len(calls[i]) \in Nat
  BY <1>1, LenProperties
<1>8. calls'[k] # <<>>
  BY <1>3, <1>4, EmptySeq
<1>9. calls[k] = <<>> => calls'[k] = <<j>>
  BY <1>3
<1>10. DOMAIN calls[k] = 1..Len(calls[k]) /\ DOMAIN calls'[k] = 1..(Len(calls[k]) + 1)
  BY <1>2, <1>3, <1>4, LenProperties
<1>11. ToSet(calls[k]) \subseteq ToSet(calls'[k]) /\ j \in ToSet(calls'[k])
  <2>1. ASSUME NEW x \in ToSet(calls[k])
        PROVE  x \in ToSet(calls'[k])
    <3>1. PICK n \in DOMAIN calls[k] : calls[k][n] = x
      BY DEF ToSet
    <3>2. n \in DOMAIN calls'[k] /\ calls'[k][n] = x
      BY <1>3, <1>4, <1>10, <3>1
    <3> QED BY <3>2 DEF ToSet
  <2>2. Len(calls[k]) + 1 \in DOMAIN calls'[k] /\ calls'[k][Len(calls[k]) + 1] = j
    BY <1>3, <1>4, <1>10
  <2> QED BY <2>1, <2>2 DEF ToSet
<1>12. \A i \in 0..Target : Callees(i) \subseteq Callees(i)'
  BY <1>3, <1>11 DEF Callees
<1>13. j # END => j \in Callees(k)'
  BY <1>11 DEF Callees
<1>14. calls[k] # <<>> => Len(calls'[k]) > 1
  BY <1>3, <1>4, <1>5
<1> QED BY <1>3, <1>4, <1>6, <1>7, <1>8, <1>9, <1>12, <1>13, <1>14

(* The function that next() comes to has not been invoked.                 *)
LEMMA NextIsIdle ==
  ASSUME IInv, NEW k \in 0..Target, step[k] = "running", Following(k) # END
  PROVE  step[Following(k)] = "idle"
<1>1. ChainOf(k) \in Chains /\ index[ChainOf(k)] \in 0..LastOf[ChainOf(k)]
  BY Layout DEF IInv, Indexed, Chains
<1>2. Following(k) = index[ChainOf(k)] + 1 /\ index[ChainOf(k)] # LastOf[ChainOf(k)]
  BY DEF Following
<1>3. Following(k) \in Functions /\ Home(Following(k)) = ChainOf(k)
  BY <1>1, <1>2, Layout DEF Functions, Home, Chains, IInv, Indexed
<1> QED BY <1>1, <1>2, <1>3, Layout DEF IInv, Indexed, Functions

(* next(), whoever calls it and whenever.                                  *)
LEMMA CallStep ==
  ASSUME IInv, NEW k \in 0..Target, NEW at \in Arrivals,
         step[k] = "running", k \in Others \/ calls[k] = <<>>, k # Target,
         CallNext(k, at), UNCHANGED <<hasty, closed>>, written' \in Seq(0..Target)
  PROVE  TypeOK' /\ Indexed' /\ Fed' /\ Entered' /\ Awaited' /\ Closed'
<1> DEFINE c == ChainOf(k)
           j == Following(k)
<1>1. /\ c \in Chains /\ index[c] \in 0..LastOf[c] /\ LastOf[c] \in Functions
      /\ k <= index[c] /\ step[k] # "idle"
  <2>1. CASE k \in {0, Method}
    BY <2>1, Layout DEF IInv, Indexed, Chains, Functions
  <2>2. CASE k \notin {0, Method}
    <3>1. k \in Functions /\ Home(k) = c
      BY <2>2, Layout DEF Functions
    <3> QED BY <3>1, Layout DEF IInv, Indexed, Chains, Functions
  <2> QED BY <2>1, <2>2
<1>2. /\ j \in 0..Target
      /\ j # END => j = index[c] + 1 /\ j \in Members(c) /\ j \in Functions /\ Home(j) = c
  BY <1>1, Layout DEF Following, END, Functions, Members, Home, Chains, IInv, Indexed
<1>3. /\ calls' = [calls EXCEPT ![k] = Append(@, j)]
      /\ j = END => UNCHANGED <<index, step, runs>>
      /\ j # END => /\ index' = [index EXCEPT ![c] = j]
                    /\ step' = [step EXCEPT ![j] = at]
                    /\ runs' = [runs EXCEPT ![j] = @ + 1]
  BY DEF CallNext
<1> HIDE DEF c, j
<1>4. /\ calls' \in [0..Target -> Seq(0..Target)]
      /\ \A i \in 0..Target : i # k => calls'[i] = calls[i]
      /\ calls'[k] # <<>> /\ (calls[k] = <<>> => calls'[k] = <<j>>)
      /\ Len(calls'[k]) = Len(calls[k]) + 1
      /\ \A i \in 0..Target : Len(calls[i]) \in Nat
      /\ \A i \in 0..Target : Callees(i) \subseteq Callees(i)'
      /\ j # END => j \in Callees(k)'
      /\ calls[k] # <<>> => Len(calls'[k]) > 1
  BY <1>2, <1>3, CallAdded DEF IInv
<1>5. j # END => step[j] = "idle" /\ runs[j] = 0 /\ j # k
  BY <1>1, <1>2, Layout DEF IInv, Indexed, Functions, Chains
<1>6. ASSUME NEW i \in 0..Target, j = END \/ i # j
      PROVE  step'[i] = step[i]
  BY <1>3, <1>6 DEF IInv, TypeOK
<1>7. ASSUME NEW i \in Functions, j = END \/ i # j
      PROVE  runs'[i] = runs[i]
  BY <1>3, <1>7 DEF IInv, TypeOK
<1>8. ASSUME NEW d \in Chains, j = END \/ d # c
      PROVE  index'[d] = index[d]
  BY <1>3, <1>8 DEF IInv, TypeOK
<1>9. j # END => index'[c] = j
  BY <1>1, <1>3 DEF IInv, TypeOK
<1>10. TypeOK'
  <2>1. index' \in [Chains -> 0..Target] /\ runs' \in [Functions -> Nat]
    <3>1. index \in [Chains -> 0..Target] /\ runs \in [Functions -> Nat]
      BY DEF IInv, TypeOK
    <3>2. CASE j = END
      BY <1>3, <3>1, <3>2
    <3>3. CASE j # END
      <4>1. index' = [index EXCEPT ![c] = j] /\ runs' = [runs EXCEPT ![j] = @ + 1]
        BY <1>3, <3>3
      <4> QED BY <1>1, <1>2, <3>1, <3>3, <4>1
    <3> QED BY <3>2, <3>3
  <2>2. step' \in [0..Target -> {"idle", "loading", "running"} \cup Settled]
    <3>1. step \in [0..Target -> {"idle", "loading", "running"} \cup Settled]
      BY DEF IInv, TypeOK
    <3>2. CASE j = END
      BY <1>3, <3>1, <3>2
    <3>3. CASE j # END
      <4>1. step' = [step EXCEPT ![j] = at] /\ at \in {"loading", "running"}
        BY <1>3, <3>3 DEF Arrivals
      <4> QED BY <3>1, <4>1
    <3> QED BY <3>2, <3>3
  <2> QED BY <1>4, <2>1, <2>2 DEF IInv, TypeOK
<1>11. Indexed'
  <2>1. CASE j = END
    BY <1>3, <2>1 DEF IInv, Indexed
  <2>2. CASE j # END
    <3>1. index'[c] = index[c] + 1 /\ \A d \in Chains : d # c => index'[d] = index[d]
      BY <1>1, <1>2, <1>3, <2>2 DEF IInv, TypeOK
    <3>2. index'["middleware"] \in 0..Method /\ index'["method"] \in Method..Target
      BY <1>1, <1>2, <2>2, <3>1, Layout DEF IInv, Indexed, Chains, Members
    <3>3. ASSUME NEW i \in Functions
          PROVE  /\ i <= index'[Home(i)] => runs'[i] = 1
                 /\ i > index'[Home(i)] => runs'[i] = 0 /\ step'[i] = "idle"
      <4>1. CASE i = j
        BY <1>2, <1>3, <1>5, <2>2, <3>1, <4>1 DEF IInv, TypeOK
      <4>2. CASE i # j
        <5>1. runs'[i] = runs[i] /\ step'[i] = step[i]
          <6>1. i \in 0..Target
            BY Layout DEF Functions
          <6> QED BY <1>7, <1>6, <4>2, <6>1
        <5>2. Home(i) \in Chains /\ index[Home(i)] \in 0..Target /\ i \in Nat
          <6>1. Home(i) \in Chains /\ i \in Nat
            BY Layout DEF Functions
          <6> QED BY <6>1 DEF IInv, TypeOK
        <5> QED BY <1>2, <2>2, <3>1, <4>2, <5>1, <5>2 DEF IInv, Indexed
      <4> QED BY <4>1, <4>2
    <3> QED BY <3>2, <3>3 DEF Indexed, Home
  <2> QED BY <2>1, <2>2
<1>12. Fed'
  <2> SUFFICES ASSUME NEW i \in 0..Target, calls'[i] = <<>>, i < index'[ChainOf(i)]
               PROVE  \E n \in Members(ChainOf(i)) : n < i /\ Len(calls'[n]) > 1
    BY DEF Fed
  <2>1. i # k /\ calls[i] = <<>> /\ ChainOf(i) \in Chains /\ index[ChainOf(i)] \in 0..Target
    BY <1>4, Layout DEF IInv, TypeOK
  <2>2. ASSUME NEW n \in Members(ChainOf(i)), n < i, Len(calls[n]) > 1
        PROVE  n < i /\ Len(calls'[n]) > 1
    <3>1. n \in 0..Target
      BY <2>1, Layout DEF Functions
    <3> QED BY <1>4, <2>2, <3>1
  <2>3. CASE i < index[ChainOf(i)]
    BY <2>1, <2>2, <2>3 DEF IInv, Fed
  <2>4. CASE ~(i < index[ChainOf(i)])
    <3>1. j # END /\ ChainOf(i) = c /\ i = index[c]
      <4>1. index'[ChainOf(i)] # index[ChainOf(i)]
        BY <2>1, <2>4
      <4>2. j # END /\ ChainOf(i) = c
        BY <1>8, <2>1, <4>1
      <4>3. index'[ChainOf(i)] = index[c] + 1 /\ index[c] \in Nat /\ i \in Nat
        BY <1>1, <1>2, <1>9, <2>1, <4>2
      <4> QED BY <2>4, <4>2, <4>3
    <3>2. k < i
      BY <1>1, <2>1, <3>1
    <3>3. CASE calls[k] = <<>>
      <4>1. PICK n \in Members(c) : n < k /\ Len(calls[n]) > 1
        BY <3>1, <3>2, <3>3 DEF IInv, Fed, c
      <4>2. n < i
        BY <1>1, <3>2, <4>1, Layout DEF Functions
      <4> QED BY <2>2, <3>1, <4>1, <4>2
    <3>4. CASE calls[k] # <<>>
      <4>1. k \in Members(c)
        BY <3>4, Layout DEF c
      <4> QED BY <1>4, <3>1, <3>2, <3>4, <4>1
    <3> QED BY <3>3, <3>4
  <2> QED BY <2>3, <2>4
<1>13. Entered'
  <2> SUFFICES ASSUME NEW i \in {0, Method}
               PROVE  calls'[i] \in {<<>>, <<i + 1>>}
    BY DEF Entered
  <2>1. i \in 0..Target
    BY Layout
  <2>2. CASE i = k
    <3>1. k \notin Others /\ calls[k] = <<>>
      BY <2>2 DEF Others, Users, Functions
    <3>2. ~(k < index[c])
      <4>1. \A n \in Members(c) : ~(n < k)
        BY <2>2, Layout DEF Members, c
      <4> QED BY <3>1, <4>1 DEF IInv, Fed, c
    <3>3. index[c] = k /\ index[c] # LastOf[c]
      <4>1. k \in Nat /\ index[c] \in Nat /\ k # LastOf[c]
        BY <1>1, <2>2, Layout DEF c, Functions
      <4> QED BY <1>1, <3>2, <4>1
    <3> QED BY <1>1, <1>4, <2>2, <3>1, <3>3 DEF Following, c, j
  <2>3. CASE i # k
    BY <1>4, <2>1, <2>3 DEF IInv, Entered
  <2> QED BY <2>2, <2>3
<1>14. Awaited'
  <2> SUFFICES ASSUME NEW i \in Functions, step'[i] \in Arrivals
               PROVE  \E n \in Before(i) :
                        i \in Callees(n)' /\ (step'[n] = "running" \/ n \in hasty')
    BY DEF Awaited, Active, Before
  <2>1. i \in 0..Target /\ i \in Nat
    BY Layout DEF Functions
  <2>2. CASE j # END /\ i = j
    <3>1. k \in Before(i)
      BY <1>1, <1>2, <2>1, <2>2, Layout DEF ChainOf, Functions, c, Before, Members
    <3>2. step'[k] = "running"
      BY <1>5, <1>6, <2>2
    <3> QED BY <1>4, <2>2, <3>1, <3>2
  <2>3. CASE j = END \/ i # j
    <3>1. step'[i] = step[i] /\ Active(i)
      BY <1>6, <2>1, <2>3 DEF Active
    <3>2. PICK n \in Before(i) : i \in Callees(n) /\ (step[n] = "running" \/ n \in hasty)
      BY <3>1 DEF IInv, Awaited
    <3>3. n \in 0..Target /\ (step[n] = "running" => step'[n] = "running")
      <4>1. n \in 0..Target
        BY <2>1, Layout DEF Before
      <4> QED BY <1>5, <1>6, <4>1
    <3> QED BY <1>4, <3>2, <3>3
  <2> QED BY <2>2, <2>3
<1>15. Closed'
  <2>1. step[Method] \in Settled => step'[Method] = step[Method]
    BY <1>5, <1>6, Layout DEF Settled
  <2> QED BY <2>1 DEF IInv, Closed
<1> QED BY <1>10, <1>11, <1>12, <1>13, <1>14, <1>15

(* A function that has the result of its first call.                       *)
LEMMA FirstCallSettled ==
  ASSUME TypeOK, NEW i \in 0..Target, calls[i] # <<>>, calls[i][1] # END, ~Waiting(i)
  PROVE  step[calls[i][1]] \in Settled
<1>1. calls[i] \in Seq(0..Target)
  BY DEF TypeOK
<1>2. 1 \in DOMAIN calls[i]
  BY <1>1, EmptySeq, LenProperties
<1>3. calls[i][1] \in Callees(i)
  BY <1>2 DEF Callees, ToSet
<1> QED BY <1>3 DEF Waiting

(* A function that has been invoked goes on, or settles, in one way or     *)
(* another.                                                                *)
LEMMA SettleStep ==
  ASSUME IInv, NEW i \in 0..Target, NEW at \in {"running"} \cup Settled,
         Active(i), at = "running" => step[i] = "loading",
         step' = [step EXCEPT ![i] = at], UNCHANGED <<index, calls, runs>>,
         hasty' = hasty \/ (i \in Others \cup {Target} /\ hasty' = hasty \cup {i}),
         step[i] = "running" /\ Waiting(i) => i \in hasty',
         closed' = closed \/ (closed' = closed + 1 /\ i = Method /\ at \in Settled),
         written' \in Seq(0..Target)
  PROVE  TypeOK' /\ Indexed' /\ Fed' /\ Entered' /\ Awaited' /\ Closed'
<1>1. /\ step \in [0..Target -> {"idle", "loading", "running"} \cup Settled]
      /\ step'[i] = at /\ \A m \in 0..Target : m # i => step'[m] = step[m]
  BY DEF IInv, TypeOK
<1>2. step[i] # "idle" /\ step[i] \notin Settled
  BY DEF Active, Arrivals, Settled
<1>3. Closed'
  <2>1. i = Method => closed = 0
    BY <1>2 DEF IInv, Closed
  <2>2. Method \in 0..Target
    BY Layout
  <2> QED BY <1>1, <2>1, <2>2 DEF IInv, Closed
<1>4. TypeOK'
  <2>1. step' \in [0..Target -> {"idle", "loading", "running"} \cup Settled]
    BY <1>1
  <2>2. hasty' \subseteq Functions
    BY <1>3, Layout DEF Closed, Functions
  <2>3. closed' \in Nat
    BY <1>3 DEF Closed
  <2> QED BY <2>1, <2>2, <2>3 DEF IInv, TypeOK
<1>5. Indexed'
  <2>1. ASSUME NEW m \in Functions, step[m] = "idle"
        PROVE  step'[m] = "idle"
    BY <1>1, <1>2, <2>1, Layout DEF Functions
  <2> QED BY <2>1 DEF IInv, Indexed, Home
<1>6. Fed' /\ Entered'
  BY DEF IInv, Fed, Entered
<1>7. Awaited'
  <2> SUFFICES ASSUME NEW m \in Functions, step'[m] \in Arrivals
               PROVE  \E n \in Before(m) :
                        m \in Callees(n)' /\ (step'[n] = "running" \/ n \in hasty')
    BY DEF Awaited, Active, Before
  <2>1. m \in 0..Target /\ Method \in Nat /\ Target \in Nat
    BY Layout DEF Functions
  <2>2. step[m] \in Arrivals
    BY <1>1, <2>1 DEF Active, Arrivals, Settled
  <2>3. PICK n \in Before(m) : m \in Callees(n) /\ (step[n] = "running" \/ n \in hasty)
    BY <2>2 DEF IInv, Awaited, Active
  <2>4. n \in 0..Target /\ m \in Callees(n)'
    <3>1. Callees(n)' = Callees(n)
      BY DEF Callees
    <3>2. n \in 0..Target
      BY <2>1, <2>3 DEF Before
    <3>3. m \in Callees(n)'
      BY <2>3, <3>1
    <3> QED BY <3>2, <3>3
  <2>5. CASE n \in hasty
    BY <2>3, <2>4, <2>5
  <2>6. CASE n # i /\ step[n] = "running"
    BY <1>1, <2>3, <2>4, <2>6
  <2>7. CASE n = i /\ step[n] = "running"
    <3>1. Waiting(i)
      BY <2>2, <2>3, <2>7 DEF Waiting, Arrivals, Settled
    <3> QED BY <2>3, <2>4, <2>7, <3>1
  <2> QED BY <2>3, <2>5, <2>6, <2>7
<1> QED BY <1>3, <1>4, <1>5, <1>6, <1>7

-----------------------------------------------------------------------------

(* What has been written stays as it was, if only running functions go on. *)
LEMMA WrittenKept ==
  ASSUME IInv, hasty \subseteq hasty', written' = written,
         \A i \in 0..Target : step[i] \in Settled => step'[i] = step[i]
  PROVE  Sent' /\ AnswersLast'
<1>1. Send \in 0..Target /\ \A n \in DOMAIN written : written[n] \in 0..Target
  <2>1. Send \in 0..Target /\ written \in Seq(0..Target)
    BY Layout DEF Send, IInv, TypeOK
  <2>2. DOMAIN written = 1..Len(written)
    BY <2>1, LenProperties
  <2>3. \A n \in 1..Len(written) : written[n] \in 0..Target
    BY <2>1, ElementOfSeq
  <2> QED BY <2>1, <2>2, <2>3
<1>2. Sent'
  BY <1>1 DEF IInv, Sent
<1>3. AnswersLast'
  BY <1>1 DEF IInv, AnswersLast, Settled
<1> QED BY <1>2, <1>3

(* The framework writes first, or a function of the user writes.           *)
LEMMA WrittenAdded ==
  ASSUME IInv, hasty \subseteq hasty',
         \A i \in 0..Target : step[i] \in Settled => step'[i] = step[i],
         NEW x \in 0..Target, written' = Append(written, x),
         x \in {0, Send} => ~HeadersSent /\ step'[Send] \in Settled,
         x \notin {0, Send} /\ step[Send] \in Settled =>
           (\E h \in hasty' : h < x) \/ step'[x] = "response"
  PROVE  written' \in Seq(0..Target) /\ Sent' /\ AnswersLast'
<1> DEFINE L == Len(written)
<1>1. written \in Seq(0..Target)
  BY DEF IInv, TypeOK
<1>2. /\ L \in Nat /\ DOMAIN written = 1..L /\ DOMAIN written' = 1..(L + 1)
      /\ written' \in Seq(0..Target)
      /\ \A n \in 1..L : written'[n] = written[n] /\ written[n] \in 0..Target
      /\ written'[L + 1] = x
  <2>1. L \in Nat /\ DOMAIN written = 1..L
    BY <1>1, LenProperties
  <2>2. /\ Append(written, x) \in Seq(0..Target) /\ Len(Append(written, x)) = L + 1
        /\ \A n \in 1..L : Append(written, x)[n] = written[n]
        /\ Append(written, x)[L + 1] = x
    BY <1>1, AppendProperties
  <2>3. DOMAIN Append(written, x) = 1..(L + 1)
    BY <2>2, LenProperties
  <2>4. \A n \in 1..L : written[n] \in 0..Target
    BY <1>1, ElementOfSeq
  <2> QED BY <2>1, <2>2, <2>3, <2>4
<1>3. ~HeadersSent => L = 0
  BY <1>1, EmptySeq DEF HeadersSent
<1> HIDE DEF L
<1>4. Send \in 0..Target
  BY Layout DEF Send
<1>5. Sent'
  <2> SUFFICES ASSUME NEW n \in 1..(L + 1), written'[n] \in {0, Send}
               PROVE  step'[Send] \in Settled
    BY <1>2 DEF Sent
  <2>1. CASE n = L + 1
    BY <1>2, <2>1
  <2>2. CASE n \in 1..L
    BY <1>2, <1>4, <2>2 DEF IInv, Sent
  <2> QED BY <1>2, <2>1, <2>2
<1>6. AnswersLast'
  <2> SUFFICES ASSUME NEW m \in 1..(L + 1), NEW n \in 1..(L + 1), m < n
               PROVE  /\ written'[n] \notin {0, Send}
                      /\ written'[m] \in {0, Send} =>
                           (\E h \in hasty' : h < written'[n]) \/ step'[written'[n]] = "response"
    BY <1>2 DEF AnswersLast
  <2>1. m \in 1..L
    BY <1>2
  <2>2. CASE n = L + 1
    <3>1. x \notin {0, Send}
      BY <1>2, <1>3, <2>1
    <3>2. written[m] \in {0, Send} => step[Send] \in Settled
      BY <1>2, <2>1 DEF IInv, Sent
    <3> QED BY <1>2, <2>1, <2>2, <3>1, <3>2
  <2>3. CASE n \in 1..L
    <3>1. /\ written[n] \notin {0, Send}
          /\ written[m] \in {0, Send} =>
               (\E h \in hasty : h < written[n]) \/ step[written[n]] = "response"
      BY <1>2, <2>1, <2>3 DEF IInv, AnswersLast
    <3> QED BY <1>2, <2>1, <2>3, <3>1 DEF Settled
  <2> QED BY <1>2, <2>2, <2>3
<1> QED BY <1>2, <1>5, <1>6

(* Who still works when sendResponse is done comes after a function that   *)
(* did not wait: the least that works was called by such a one, since a    *)
(* caller that runs would be less, and the sequence calls sendResponse.    *)
LEMMA LateWorker ==
  ASSUME IInv, step[Send] \in Settled, NEW x \in Functions, Active(x)
  PROVE  \E h \in hasty : h < x
<1> DEFINE Busy == {i \in Functions : Active(i)}
<1>1. Busy \subseteq Nat /\ x \in Busy
  BY Layout DEF Functions
<1>2. PICK i \in Busy : \A m \in Busy : i <= m
  BY <1>1, LeastOf
<1>3. PICK k \in Before(i) : i \in Callees(k) /\ (step[k] = "running" \/ k \in hasty)
  BY <1>2 DEF IInv, Awaited
<1>4. i \in Nat /\ i <= x /\ k \in 0..Target /\ k < i /\ x \in Nat
  BY <1>1, <1>2, <1>3, Layout DEF Before, Functions
<1>5. CASE k \in hasty
  BY <1>4, <1>5
<1>6. CASE step[k] = "running" /\ k # 0
  <2>1. k \in Busy
    BY <1>4, <1>6, Layout DEF Functions, Active, Arrivals
  <2> QED BY <1>2, <1>4, <2>1
<1>7. CASE k = 0
  <2>1. calls[0] \in {<<>>, <<Send>>}
    BY DEF IInv, Entered, Send
  <2>2. Callees(0) \subseteq {Send}
    BY <2>1 DEF Callees, ToSet
  <2>3. i = Send
    BY <1>3, <1>7, <2>2
  <2> QED BY <1>2, <2>3 DEF Active, Arrivals, Settled
<1> QED BY <1>3, <1>5, <1>6, <1>7

(* Each action calls next(), settles or writes.                            *)
LEMMA PipelineStep ==
  ASSUME IInv, [Next]_vars
  PROVE  IInv'
<1> DEFINE Kept == TypeOK' /\ Indexed' /\ Fed' /\ Entered' /\ Awaited' /\ Closed'
           Later == /\ hasty \subseteq hasty'
                    /\ \A i \in 0..Target : step[i] \in Settled => step'[i] = step[i]
<1>1. written \in Seq(0..Target) /\ step \in [0..Target -> {"idle", "loading", "running"} \cup Settled]
  BY DEF IInv, TypeOK
<1>2. Send \in 0..Target /\ Method \in 0..Target /\ Target \in 0..Target /\ 0 \in 0..Target
  BY Layout DEF Send
<1>3. CASE UNCHANGED vars
  BY <1>3 DEF vars, IInv, TypeOK, Indexed, Fed, Entered, Awaited, Closed, Sent, AnswersLast,
              Active, Callees, Home
<1>4. ASSUME NEW k \in 0..Target, NEW at \in Arrivals, step[k] = "running",
             k \in Others \/ calls[k] = <<>>, k # Target, CallNext(k, at),
             UNCHANGED <<hasty, closed, written>>
      PROVE  IInv'
  <2>1. Kept
    BY <1>1, <1>4, CallStep
  <2>2. Later
    <3>1. Following(k) # END => /\ step' = [step EXCEPT ![Following(k)] = at]
                                /\ step[Following(k)] = "idle"
      BY <1>4, NextIsIdle DEF CallNext
    <3>2. Following(k) = END => step' = step
      BY <1>4 DEF CallNext
    <3> QED BY <1>1, <1>4, <3>1, <3>2 DEF Settled
  <2> QED BY <1>4, <2>1, <2>2, WrittenKept DEF IInv
<1>5. ASSUME NEW i \in {0, Send, Method}, NEW at \in Arrivals, Next1(i, at)
      PROVE  IInv'
  <2>1. i \in 0..Target /\ i # Target
    BY <1>2, Layout DEF Send
  <2> QED BY <1>4, <1>5, <2>1 DEF Next1
<1>6. ASSUME NEW i \in Others, NEW at \in Arrivals, UserNext(i, at)
      PROVE  IInv'
  <2>1. i \in 0..Target /\ i # Target
    BY Layout DEF Functions
  <2> QED BY <1>4, <1>6, <2>1 DEF UserNext
<1>7. ASSUME NEW i \in Express, NEW at \in Arrivals, HandlerProceeds(i, at)
      PROVE  IInv'
  <2>1. i \in 0..Target /\ i # Target
    BY Layout DEF Functions
  <2> QED BY <1>4, <1>7, <2>1 DEF HandlerProceeds
<1>8. ASSUME NEW i \in Functions, NEW at \in {"running", "error"}, Load(i, at)
      PROVE  IInv'
  <2>1. i \in 0..Target /\ Active(i)
    BY <1>8, Layout DEF Functions, Active, Arrivals, Load
  <2>2. Kept
    BY <1>1, <1>8, <2>1, SettleStep DEF Load, Settled
  <2>3. Later
    BY <1>1, <1>8, <2>1 DEF Load, Settled
  <2> QED BY <1>8, <2>2, <2>3, WrittenKept DEF Load, IInv
<1>9. ASSUME NEW i \in 0..Target, NEW how \in Settled, step[i] = "running",
             Waiting(i) => i \in hasty', step' = [step EXCEPT ![i] = how],
             hasty' = hasty \/ (i \in Others \cup {Target} /\ hasty' = hasty \cup {i}),
             closed' = closed \/ (closed' = closed + 1 /\ i = Method),
             UNCHANGED <<index, calls, runs, written>>
      PROVE  IInv'
  <2>1. Active(i) /\ how # "running"
    BY <1>9 DEF Active, Arrivals, Settled
  <2>2. Kept
    BY <1>1, <1>9, <2>1, SettleStep
  <2>3. Later
    BY <1>1, <1>9 DEF Settled
  <2> QED BY <1>9, <2>2, <2>3, WrittenKept DEF IInv
<1>10. ASSUME NEW i \in Others \cup {Target}, NEW how \in Settled, Settle(i, how)
       PROVE  IInv'
  <2>1. i \in 0..Target
    BY <1>2, Layout DEF Functions
  <2> QED BY <1>9, <1>10, <2>1 DEF Settle
<1>11. ASSUME NEW i \in Express, HandlerFails(i) \/ HandlerFinishes(i)
       PROVE  IInv'
  <2>1. i \in 0..Target
    BY Layout DEF Functions
  <2>2. ~Waiting(i)
    <3>1. Callees(i) = {}
      BY <1>11, EmptySeq DEF HandlerFails, HandlerFinishes, Callees, ToSet
    <3> QED BY <3>1 DEF Waiting
  <2>3. CASE HandlerFails(i)
    <3>1. "error" \in Settled
      BY DEF Settled
    <3> QED BY <1>9, <2>1, <2>2, <2>3, <3>1 DEF HandlerFails
  <2>4. CASE HandlerFinishes(i)
    <3>1. "response" \in Settled
      BY DEF Settled
    <3> QED BY <1>9, <2>1, <2>2, <2>4, <3>1 DEF HandlerFinishes
  <2> QED BY <1>11, <2>3, <2>4
<1>12. ASSUME NEW i \in Express, HandlerReturns(i)
       PROVE  IInv'
  <2>1. i \in 0..Target /\ step[i] = "running" /\ calls[i] # <<>> /\ ~Waiting(i)
    BY <1>12, Layout DEF Functions, HandlerReturns
  <2> DEFINE how == IF calls[i][1] = END THEN "ok" ELSE step[calls[i][1]]
  <2>2. how \in Settled
    BY <2>1, FirstCallSettled DEF IInv, Settled
  <2>3. step' = [step EXCEPT ![i] = how] /\ UNCHANGED <<index, calls, runs, hasty, closed, written>>
    BY <1>12 DEF HandlerReturns
  <2> HIDE DEF how
  <2> QED BY <1>9, <2>1, <2>2, <2>3
<1>13. CASE CloseInvocation
  <2>1. step[Method] = "running" /\ ~Waiting(Method) /\ calls[Method] # <<>>
    BY <1>13 DEF CloseInvocation
  <2>2. calls[Method][1] = Method + 1
    BY <2>1 DEF IInv, Entered
  <2>3. step[calls[Method][1]] \in Settled
    BY <1>2, <2>1, <2>2, FirstCallSettled, Layout DEF IInv, END
  <2> QED BY <1>2, <1>9, <1>13, <2>1, <2>3 DEF CloseInvocation
<1>14. ASSUME NEW i \in {0, Send}, NEW how \in Settled, step[i] = "running", ~Waiting(i),
              step' = [step EXCEPT ![i] = how],
              written' = written \/ (~HeadersSent /\ written' = Append(written, i)),
              i = 0 => step[Send] \in Settled,
              UNCHANGED <<index, calls, runs, hasty, closed>>
       PROVE  IInv'
  <2>1. Active(i) /\ i \in 0..Target /\ how # "running"
    BY <1>2, <1>14 DEF Active, Arrivals, Settled
  <2>2. Later
    BY <1>1, <1>14 DEF Settled
  <2>3. step'[Send] \in Settled
    BY <1>1, <1>2, <1>14, <2>2
  <2>4. written' \in Seq(0..Target) /\ Sent' /\ AnswersLast'
    <3>1. CASE written' = written
      BY <1>1, <2>2, <3>1, WrittenKept
    <3>2. CASE ~HeadersSent /\ written' = Append(written, i)
      BY <1>14, <2>1, <2>2, <2>3, <3>2, WrittenAdded
    <3> QED BY <1>14, <3>1, <3>2
  <2>5. Kept
    BY <1>14, <2>1, <2>4, SettleStep
  <2> QED BY <2>4, <2>5 DEF IInv
<1>15. CASE SendResponse
  <2>1. "ok" \in Settled
    BY DEF Settled
  <2>2. written' = written \/ (~HeadersSent /\ written' = Append(written, Send))
    BY <1>15 DEF SendResponse
  <2>3. /\ step[Send] = "running" /\ ~Waiting(Send) /\ Send # 0
        /\ step' = [step EXCEPT ![Send] = "ok"]
        /\ UNCHANGED <<index, calls, runs, hasty, closed>>
    BY <1>15 DEF SendResponse, Send
  <2> QED BY <1>14, <2>1, <2>2, <2>3
<1>16. CASE SequenceEnds
  <2>1. step[0] = "running" /\ ~Waiting(0) /\ calls[0] # <<>>
    BY <1>16 DEF SequenceEnds
  <2>2. calls[0][1] = Send
    BY <2>1 DEF IInv, Entered, Send
  <2>3. step[Send] \in Settled
    BY <1>2, <2>1, <2>2, FirstCallSettled DEF IInv, END, Send
  <2>4. written' = written \/ (~HeadersSent /\ written' = Append(written, 0))
    BY <1>16 DEF SequenceEnds
  <2> QED BY <1>14, <1>16, <2>1, <2>3, <2>4 DEF SequenceEnds
<1>17. ASSUME NEW i \in Users \cup {Target}, Write(i)
       PROVE  IInv'
  <2>1. i \in Functions /\ i \in 0..Target /\ i \notin {0, Send}
    BY <1>2, Layout DEF Users, Functions, Send
  <2>2. /\ written' = Append(written, i) /\ step[i] \in {"running", "response"}
        /\ UNCHANGED <<index, step, calls, runs, hasty, closed>>
    BY <1>17 DEF Write
  <2>3. step[i] = "running" /\ step[Send] \in Settled => \E h \in hasty : h < i
    BY <2>1, LateWorker DEF Active, Arrivals
  <2>4. written' \in Seq(0..Target) /\ Sent' /\ AnswersLast'
    BY <2>1, <2>2, <2>3, WrittenAdded
  <2>5. TypeOK'
    BY <2>2, <2>4 DEF IInv, TypeOK
  <2>6. Indexed' /\ Fed' /\ Entered' /\ Awaited' /\ Closed'
    BY <2>2 DEF IInv, Indexed, Fed, Entered, Awaited, Closed, Active, Callees, Home, Before
  <2> QED BY <2>4, <2>5, <2>6 DEF IInv
<1> QED BY <1>3, <1>5, <1>6, <1>7, <1>8, <1>10, <1>11, <1>12, <1>13, <1>15, <1>16, <1>17
        DEF Next, Proceed

-----------------------------------------------------------------------------

(* The invariant holds of every behaviour.                                 *)
THEOREM PipelineInductive == Spec => []IInv
<1>1. IInv /\ [Next]_vars => IInv'
  BY PipelineStep
<1> QED BY InitIInv, <1>1, PTL DEF Spec

(* The variables of RequestPipeline keep their types.                      *)
THEOREM PipelineTypes == Spec => []TypeOK
BY PipelineInductive, PTL DEF IInv

(* With chains of any length, of functions that skip next() or call it     *)
(* more than once, throw, do not wait, or return the response: the         *)
(* framework does not write after anybody else, and nobody writes after it *)
(* but a function that one before it did not wait for, or that has         *)
(* returned the response.                                                  *)
THEOREM FrameworkAnswersLast == Spec => []AnswersLast
BY PipelineInductive, PTL DEF IInv

(* In chains of any length and with any number of next() calls, also       *)
(* concurrent ones, no function runs twice: the index only grows.          *)
THEOREM NobodyRunsTwice == Spec => []RunsOnce
<1>1. ASSUME IInv
      PROVE  RunsOnce
  <2> SUFFICES ASSUME NEW i \in Functions PROVE runs[i] <= 1
    BY DEF RunsOnce
  <2>1. Home(i) \in Chains /\ i \in Nat
    BY Layout DEF Functions
  <2>2. index[Home(i)] \in Nat
    BY <1>1, <2>1 DEF IInv, TypeOK
  <2> QED BY <1>1, <2>1, <2>2 DEF IInv, Indexed
<1> QED BY PipelineInductive, <1>1, PTL

(* A function that does not call next() keeps everything after it from     *)
(* running, unless one before it has called next() twice.                  *)
THEOREM SkippingSkips == Spec => []SkipIsRespected
<1>1. ASSUME IInv
      PROVE  SkipIsRespected
  <2> SUFFICES ASSUME NEW i \in Functions, Skips(i), ~Repeats(i),
                      NEW j \in After(i)
               PROVE  runs[j] = 0
    BY DEF SkipIsRespected
  <2>1. i \in 0..Target /\ i \in Functions \ {Method} /\ calls[i] = <<>>
    BY Layout DEF Skips, Users, Functions
  <2>2. ChainOf(i) \in Chains /\ index[ChainOf(i)] \in Nat
    BY <1>1, <2>1, Layout DEF IInv, TypeOK
  <2>3. ~(i < index[ChainOf(i)])
    BY <1>1, <2>1 DEF IInv, Fed, Repeats
  <2>4. j \in Members(ChainOf(i)) /\ j > i /\ j \in Functions /\ j \in Nat /\ i \in Nat
    BY <2>2, Layout DEF After, Functions
  <2>5. Home(j) = ChainOf(i)
    BY <2>4, Layout DEF Members, Home, ChainOf, Chains
  <2> QED BY <1>1, <2>2, <2>3, <2>4, <2>5 DEF IInv, Indexed
<1> QED BY PipelineInductive, <1>1, PTL

(* When the context of the invocation has been closed and no interceptor   *)
(* settled too early, none of them works any more: the least that did      *)
(* would have been called by one that works or by invokeMethod, which has  *)
(* settled.                                                                *)
THEOREM ContextOutlivesCalls == Spec => []ClosedLast
<1>1. ASSUME IInv
      PROVE  ClosedLast
  <2>1. closed <= 1
    BY <1>1 DEF IInv, Closed
  <2>2. ASSUME closed = 1, hasty \cap Members("method") = {}
        PROVE  \A i \in Members("method") : ~Active(i)
    <3> DEFINE Busy == {i \in Members("method") : Active(i)}
    <3>1. Busy \subseteq Nat
      BY Layout DEF Functions, Chains
    <3>2. ASSUME Busy # {}
          PROVE  FALSE
      <4>1. PICK i \in Busy : \A m \in Busy : i <= m
        BY <3>1, <3>2, LeastOf
      <4>2. PICK k \in Method..(i - 1) : i \in Callees(k) /\ (step[k] = "running" \/ k \in hasty)
        BY <1>1, <4>1, Layout DEF IInv, Awaited, Before, Chains
      <4>3. i \in Nat /\ i <= Target
        BY <4>1, Layout DEF Members, Chains
      <4>4. CASE k = Method
        BY <1>1, <2>2, <4>2, <4>4, Layout DEF IInv, Closed, Settled
      <4>5. CASE k # Method
        <5>1. k \in Members("method") /\ k < i
          BY <4>2, <4>3, <4>5, Layout DEF Members
        <5>2. k \in Busy
          BY <2>2, <4>2, <5>1 DEF Active, Arrivals
        <5> QED BY <3>1, <4>1, <5>1, <5>2
      <4> QED BY <4>4, <4>5
    <3> QED BY <3>2
  <2>3. ASSUME NEW i \in Members("method"), ~Active(i)
        PROVE  step[i] \in {"idle"} \cup Settled
    <3>1. i \in 0..Target
      BY Layout DEF Functions, Chains
    <3> QED BY <1>1, <2>3, <3>1 DEF IInv, TypeOK, Active, Arrivals
  <2> QED BY <2>1, <2>2, <2>3 DEF ClosedLast
<1> QED BY PipelineInductive, <1>1, PTL
=============================================================================
