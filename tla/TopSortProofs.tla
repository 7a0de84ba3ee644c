--------------------------- MODULE TopSortProofs ---------------------------
(***************************************************************************)
(* What TopSort returns, for every graph: SortInv (module TopSortSteps) is *)
(* inductive.                                                              *)
(***************************************************************************)
EXTENDS TopSortSteps, FiniteSetTheorems, SequenceTheorems, TLAPS

Call == [job : DOMAIN jobs, dep : Nat \ {0}]

(* The call on top of the stack, and the stack once it is moved on or      *)
(* popped.                                                                 *)
LEMMA StackType ==
  ASSUME TypeOK
  PROVE  /\ stack \in Seq(Call) /\ Len(stack) \in Nat /\ DOMAIN stack = 1..Len(stack)
         /\ \A a \in DOMAIN stack : stack[a] \in Call
<1>1. stack \in Seq(Call)
  BY DEF TypeOK, Call
<1> QED
  BY <1>1

LEMMA TopFacts ==
  ASSUME TypeOK, stack # <<>>
  PROVE  /\ Len(stack) \in DOMAIN stack /\ Len(stack) \in Nat \ {0}
         /\ DOMAIN stack = 1..Len(stack)
         /\ Top \in Call /\ Top.job \in DOMAIN jobs /\ Top.dep \in Nat \ {0}
         /\ jobs[Top.job] \in ID /\ jobs[Top.job] \in Range(jobs)
         /\ TopDeps \in Seq(ID)
<1>1. /\ Len(stack) \in DOMAIN stack /\ Len(stack) \in Nat \ {0}
      /\ DOMAIN stack = 1..Len(stack) /\ stack[Len(stack)] \in Call
  <2>1. Len(stack) # 0
    BY StackType
  <2> QED
    BY StackType, <2>1
<1>2. Top.job \in DOMAIN jobs /\ Top.dep \in Nat \ {0} /\ Top \in Call
  BY <1>1 DEF Top, Call
<1>3. jobs[Top.job] \in ID /\ jobs[Top.job] \in Range(jobs)
  BY <1>2 DEF TypeOK, Range
<1> QED
  BY <1>1, <1>2, <1>3 DEF TypeOK, TopDeps

LEMMA MovedOn ==
  ASSUME TypeOK, stack # <<>>, NEW calls,
         calls = [stack EXCEPT ![Len(stack)].dep = @ + 1]
  PROVE  /\ calls \in Seq(Call) /\ Len(calls) = Len(stack) /\ DOMAIN calls = DOMAIN stack
         /\ calls[Len(stack)] = [job |-> Top.job, dep |-> Top.dep + 1]
         /\ \A a \in DOMAIN stack : calls[a].job = stack[a].job
         /\ \A a \in DOMAIN stack \ {Len(stack)} : calls[a] = stack[a]
<1>1. /\ DOMAIN calls = 1..Len(stack) /\ Len(stack) \in Nat \ {0}
      /\ \A a \in DOMAIN stack \ {Len(stack)} : calls[a] = stack[a]
      /\ calls[Len(stack)] = [Top EXCEPT !.dep = @ + 1]
  BY TopFacts DEF TypeOK, Top
<1>2. /\ [Top EXCEPT !.dep = @ + 1] = [job |-> Top.job, dep |-> Top.dep + 1]
      /\ [job |-> Top.job, dep |-> Top.dep + 1] \in Call
  BY TopFacts DEF Call
<1>3. \A a \in DOMAIN stack : calls[a] \in Call /\ calls[a].job = stack[a].job
  <2>1. ASSUME NEW a \in DOMAIN stack, a # Len(stack)
        PROVE  calls[a] \in Call /\ calls[a].job = stack[a].job
    BY <1>1, <2>1, StackType
  <2>2. calls[Len(stack)] \in Call /\ calls[Len(stack)].job = Top.job
    BY <1>1, <1>2
  <2> QED
    BY <2>1, <2>2 DEF Top
<1>4. calls = [a \in 1..Len(stack) |-> calls[a]]
  <2>1. stack = [a \in 1..Len(stack) |-> stack[a]]
    BY StackType
  <2> QED
    BY <1>1, <2>1
<1>5. calls \in Seq(Call) /\ Len(calls) = Len(stack)
  <2>1. \A a \in 1..Len(stack) : calls[a] \in Call
    BY <1>3, StackType
  <2>2. calls \in [1..Len(stack) -> Call]
    BY <1>4, <2>1
  <2> QED
    BY <2>2, StackType
<1> QED
  BY <1>1, <1>2, <1>3, <1>5, TopFacts

LEMMA Popped ==
  ASSUME TypeOK, stack # <<>>
  PROVE  /\ Front(stack) \in Seq(Call) /\ Len(Front(stack)) = Len(stack) - 1
         /\ DOMAIN Front(stack) = 1..(Len(stack) - 1)
         /\ \A a \in 1..(Len(stack) - 1) : Front(stack)[a] = stack[a]
<1>1. stack \in Seq(Call) /\ Len(stack) \in Nat \ {0}
  BY StackType, TopFacts
<1>2. Front(stack) = SubSeq(stack, 1, Len(stack) - 1)
  BY DEF Front
<1> DEFINE n == Len(stack) - 1
<1>3. n \in Nat /\ n \in Int /\ 1 \in Int /\ \A a \in 1..n : stack[a] \in Call
  BY <1>1, StackType
<1> HIDE DEF n
<1>4. /\ SubSeq(stack, 1, n) \in Seq(Call)
      /\ Len(SubSeq(stack, 1, n)) = n
      /\ \A a \in 1..n : SubSeq(stack, 1, n)[a] = stack[a]
  <2>1. /\ SubSeq(stack, 1, n) \in Seq(Call)
        /\ Len(SubSeq(stack, 1, n)) = IF 1 <= n THEN n - 1 + 1 ELSE 0
        /\ \A a \in 1..(n - 1 + 1) : SubSeq(stack, 1, n)[a] = stack[1 + a - 1]
    BY <1>3, SubSeqProperties
  <2>2. (IF 1 <= n THEN n - 1 + 1 ELSE 0) = n /\ n - 1 + 1 = n
    BY <1>3
  <2>3. \A a \in 1..n : 1 + a - 1 = a
    BY <1>3
  <2> QED
    BY <2>1, <2>2, <2>3
<1>5. ASSUME NEW s \in Seq(Call), Len(s) = n
      PROVE  DOMAIN s = 1..n
  BY <1>5
<1> QED
  BY <1>2, <1>4, <1>5 DEF n

(* A job that a call is for, or that an ID leads to, is in the graph.      *)
LEMMA DepIndex ==
  ASSUME TypeOK, stack # <<>>, NEW id \in ID
  PROVE  jobIDIndex[id] \in DOMAIN jobs
<1>1. DOMAIN jobs = 1..Len(jobs) /\ Len(jobs) \in Nat /\ Top.job \in DOMAIN jobs
  BY TopFacts DEF TypeOK
<1>2. 1 \in DOMAIN jobs
  BY <1>1
<1> QED
  BY <1>2 DEF TypeOK

(* What a call of visit does.                                              *)
LEMMA VisitFacts ==
  ASSUME TypeOK, NEW calls \in Seq(Call), NEW x \in DOMAIN jobs, Visit(x, calls)
  PROVE  /\ visited' = visited \cup {x} /\ visited' \subseteq DOMAIN jobs
         /\ stack' \in Seq(Call)
         /\ \/ x \in visited /\ stack' = calls
            \/ /\ x \notin visited
               /\ Len(stack') = Len(calls) + 1
               /\ DOMAIN stack' = 1..(Len(calls) + 1)
               /\ stack'[Len(calls) + 1] = [job |-> x, dep |-> 1]
               /\ \A a \in 1..Len(calls) : stack'[a] = calls[a]
<1>1. [job |-> x, dep |-> 1] \in Call
  BY DEF Call
<1>2. CASE x \in visited
  BY <1>2 DEF Visit, TypeOK
<1>3. CASE x \notin visited
  <2>1. stack' = Append(calls, [job |-> x, dep |-> 1]) /\ visited' = visited \cup {x}
    BY <1>3 DEF Visit
  <2> DEFINE c == [job |-> x, dep |-> 1]
  <2>2. c \in Call /\ stack' = Append(calls, c)
    BY <1>1, <2>1
  <2>3. visited' \subseteq DOMAIN jobs
    BY <2>1 DEF TypeOK
  <2> HIDE DEF c
  <2>4. /\ stack' \in Seq(Call) /\ Len(stack') = Len(calls) + 1
        /\ DOMAIN stack' = 1..(Len(calls) + 1)
        /\ stack'[Len(calls) + 1] = c
        /\ \A a \in 1..Len(calls) : stack'[a] = calls[a]
    BY <2>2
  <2> QED
    BY <1>3, <2>1, <2>3, <2>4 DEF c
<1> QED
  BY <1>2, <1>3

-----------------------------------------------------------------------------
(* The type invariant.                                                     *)

LEMMA TypeInit == Init => TypeOK
<1> SUFFICES ASSUME Init PROVE TypeOK
  OBVIOUS
<1>1. jobs \in Seq(ID) /\ deps \in [ID -> Seq(ID)]
  BY GraphAssumption DEF Init
<1>2. i \in 1..(Len(jobs) + 1)
  BY <1>1 DEF Init
<1> QED
  BY <1>1, <1>2 DEF Init, TypeOK

LEMMA TypeStep == TypeOK /\ [Next]_vars => TypeOK'
<1> SUFFICES ASSUME TypeOK, [Next]_vars PROVE TypeOK'
  OBVIOUS
<1>1. CASE IndexJob
  <2>1. /\ i \in DOMAIN jobs /\ i + 1 \in 1..(Len(jobs) + 1)
    BY <1>1 DEF TypeOK, IndexJob
  <2> QED
    BY <1>1, <2>1 DEF TypeOK, IndexJob, graph
<1>2. CASE AllIndexed
  <2>1. 1 \in 1..(Len(jobs) + 1)
    BY DEF TypeOK
  <2> QED
    BY <1>2, <2>1 DEF TypeOK, AllIndexed, graph
<1>3. CASE VisitRoot
  <2>1. /\ i \in DOMAIN jobs /\ i + 1 \in 1..(Len(jobs) + 1)
    BY <1>3 DEF TypeOK, VisitRoot
  <2>2. stack \in Seq(Call)
    BY DEF TypeOK, Call
  <2>3. stack' \in Seq(Call) /\ visited' \subseteq DOMAIN jobs
    BY <1>3, <2>1, <2>2, VisitFacts DEF VisitRoot
  <2> QED
    BY <1>3, <2>1, <2>3 DEF TypeOK, VisitRoot, graph, Call
<1>4. CASE VisitDep
  <2>1. TopDeps[Top.dep] \in ID
    BY <1>4, TopFacts DEF VisitDep
  <2>2. jobIDIndex[TopDeps[Top.dep]] \in DOMAIN jobs
    BY <1>4, <2>1, DepIndex DEF VisitDep
  <2>3. [stack EXCEPT ![Len(stack)].dep = @ + 1] \in Seq(Call)
    BY <1>4, MovedOn DEF VisitDep
  <2>4. stack' \in Seq(Call) /\ visited' \subseteq DOMAIN jobs
    BY <1>4, <2>2, <2>3, VisitFacts DEF VisitDep
  <2> QED
    BY <1>4, <2>4 DEF TypeOK, VisitDep, graph, Call
<1>5. CASE AppendJob
  <2>1. stack' \in Seq(Call)
    BY <1>5, Popped DEF AppendJob
  <2>2. sorted' \in Seq(Range(jobs))
    BY <1>5, TopFacts DEF AppendJob, TypeOK
  <2> QED
    BY <1>5, <2>1, <2>2 DEF TypeOK, AppendJob, graph, Call
<1>6. CASE Return
  BY <1>6 DEF TypeOK, Return, graph
<1>7. CASE UNCHANGED vars
  BY <1>7 DEF TypeOK, vars, graph
<1> QED
  BY <1>1, <1>2, <1>3, <1>4, <1>5, <1>6, <1>7 DEF Next

(* The positions, the stack and the result are what they seem, for every   *)
(* graph.                                                                  *)
THEOREM SortTypeCorrect == Spec => []TypeOK
<1> QED
  BY TypeInit, TypeStep, PTL DEF Spec

-----------------------------------------------------------------------------
(* The calls that run, and the jobs whose call has returned.               *)

LEMMA CallFacts ==
  ASSUME TypeOK, Progress, NEW calls \in Seq(Call), NEW x \in DOMAIN jobs,
         DOMAIN calls = DOMAIN stack,
         \A a \in DOMAIN stack : calls[a].job = stack[a].job,
         Visit(x, calls)
  PROVE  /\ Finished' = Finished
         /\ Running' \subseteq visited'
         /\ \A a, b \in DOMAIN stack' : stack'[a].job = stack'[b].job => a = b
<1>1. Running \subseteq visited /\ \A a, b \in DOMAIN stack : stack[a].job = stack[b].job => a = b
  BY DEF Progress
<1>2. DOMAIN calls = 1..Len(calls) /\ Len(calls) \in Nat
  OBVIOUS
<1>3. CASE x \in visited /\ stack' = calls
  <2>1. visited' = visited
    BY <1>3, VisitFacts
  <2>2. Running' = Running
    BY <1>3 DEF Running
  <2> QED
    BY <1>1, <1>3, <2>1, <2>2 DEF Finished
<1>4. CASE /\ x \notin visited
           /\ Len(stack') = Len(calls) + 1
           /\ DOMAIN stack' = 1..(Len(calls) + 1)
           /\ stack'[Len(calls) + 1] = [job |-> x, dep |-> 1]
           /\ \A a \in 1..Len(calls) : stack'[a] = calls[a]
  <2>1. visited' = visited \cup {x}
    BY VisitFacts
  <2>2. /\ DOMAIN stack' = DOMAIN stack \cup {Len(calls) + 1}
        /\ Len(calls) + 1 \notin DOMAIN stack
    BY <1>2, <1>4
  <2>3. /\ \A a \in DOMAIN stack : stack'[a].job = stack[a].job
        /\ stack'[Len(calls) + 1].job = x
    BY <1>2, <1>4
  <2>4. Running' = Running \cup {x}
    BY <2>2, <2>3 DEF Running
  <2>5. \A a \in DOMAIN stack : stack[a].job # x
    BY <1>1, <1>4 DEF Running
  <2> QED
    BY <1>1, <1>4, <2>1, <2>2, <2>3, <2>4, <2>5 DEF Finished
<1> QED
  BY <1>3, <1>4, VisitFacts

(* The two steps that call visit.                                          *)
LEMMA RootCall ==
  ASSUME TypeOK, VisitRoot
  PROVE  stack \in Seq(Call) /\ i \in DOMAIN jobs /\ Visit(i, stack)
BY StackType DEF VisitRoot, TypeOK

LEMMA DepCall ==
  ASSUME TypeOK, VisitDep,
         NEW calls, calls = [stack EXCEPT ![Len(stack)].dep = @ + 1],
         NEW x, x = jobIDIndex[TopDeps[Top.dep]]
  PROVE  /\ stack # <<>> /\ calls \in Seq(Call) /\ Len(calls) = Len(stack)
         /\ DOMAIN calls = DOMAIN stack
         /\ \A a \in DOMAIN stack : calls[a].job = stack[a].job
         /\ x \in DOMAIN jobs /\ Visit(x, calls)
         /\ Top.dep \in DOMAIN TopDeps /\ TopDeps[Top.dep] \in ID
<1>1. stack # <<>> /\ Visit(x, calls)
  BY DEF VisitDep
<1>2. Top.dep \in DOMAIN TopDeps /\ TopDeps[Top.dep] \in ID
  BY <1>1, TopFacts DEF VisitDep
<1> QED
  BY <1>1, <1>2, MovedOn, DepIndex

LEMMA PopFacts ==
  ASSUME TypeOK, Progress, AppendJob
  PROVE  /\ Top.job \in visited /\ Top.job \notin Finished
         /\ Finished' = Finished \cup {Top.job}
         /\ Running' \subseteq visited'
         /\ DOMAIN stack' \subseteq DOMAIN stack
         /\ \A a \in DOMAIN stack' : stack'[a] = stack[a]
<1>1. /\ stack # <<>> /\ stack' = Front(stack) /\ visited' = visited
  BY DEF AppendJob
<1>2. Running \subseteq visited /\ \A a, b \in DOMAIN stack : stack[a].job = stack[b].job => a = b
  BY DEF Progress
<1>3. /\ DOMAIN stack = 1..Len(stack) /\ Len(stack) \in Nat \ {0}
      /\ DOMAIN stack' = 1..(Len(stack) - 1)
      /\ \A a \in 1..(Len(stack) - 1) : stack'[a] = stack[a]
  BY <1>1, TopFacts, Popped
<1>4. DOMAIN stack = DOMAIN stack' \cup {Len(stack)} /\ Len(stack) \notin DOMAIN stack'
  BY <1>3
<1>5. Running = Running' \cup {Top.job} /\ Top.job \notin Running'
  BY <1>2, <1>3, <1>4 DEF Running, Top
<1> QED
  BY <1>1, <1>2, <1>3, <1>4, <1>5 DEF Finished

LEMMA ProgressStep == TypeOK /\ Progress /\ [Next]_vars => Progress'
<1> SUFFICES ASSUME TypeOK, Progress, [Next]_vars PROVE Progress'
  OBVIOUS
<1>1. CASE IndexJob
  BY <1>1 DEF IndexJob, Progress, Running
<1>2. CASE AllIndexed
  <2>1. /\ pc' = "visit" /\ i' = 1 /\ stack' = stack /\ visited' = visited
        /\ visited = {} /\ stack = <<>>
    BY <1>2 DEF AllIndexed, Progress
  <2>2. 1..(i' - 1) = {} /\ Running' = {} /\ DOMAIN stack' = {}
    BY <2>1 DEF Running
  <2> QED
    BY <2>1, <2>2 DEF Progress
<1>3. CASE VisitRoot
  <2>1. /\ visited' = visited \cup {i} /\ Running' \subseteq visited'
        /\ \A a, b \in DOMAIN stack' : stack'[a].job = stack'[b].job => a = b
    BY <1>3, RootCall, VisitFacts, CallFacts
  <2>2. pc = "visit" /\ pc' = pc /\ i' = i + 1 /\ 1..(i - 1) \subseteq visited /\ i \in Nat
    BY <1>3 DEF VisitRoot, Progress, TypeOK
  <2>3. 1..(i' - 1) \subseteq visited'
    BY <2>1, <2>2
  <2> QED
    BY <2>1, <2>2, <2>3 DEF Progress
<1>4. CASE VisitDep
  <2> DEFINE calls == [stack EXCEPT ![Len(stack)].dep = @ + 1]
             x == jobIDIndex[TopDeps[Top.dep]]
  <2>1. /\ stack # <<>> /\ calls \in Seq(Call) /\ DOMAIN calls = DOMAIN stack
        /\ \A a \in DOMAIN stack : calls[a].job = stack[a].job
        /\ x \in DOMAIN jobs /\ Visit(x, calls)
    BY <1>4, DepCall
  <2> HIDE DEF calls, x
  <2>2. /\ visited' = visited \cup {x} /\ Running' \subseteq visited'
        /\ \A a, b \in DOMAIN stack' : stack'[a].job = stack'[b].job => a = b
    BY <2>1, VisitFacts, CallFacts
  <2>3. pc = "visit" /\ pc' = pc /\ i' = i
    BY <1>4, <2>1 DEF VisitDep, Progress, TypeOK
  <2> QED
    BY <2>2, <2>3 DEF Progress
<1>5. CASE AppendJob
  <2>1. pc = "visit" /\ pc' = pc /\ i' = i /\ visited' = visited
    BY <1>5 DEF AppendJob, Progress, TypeOK
  <2> QED
    BY <1>5, <2>1, PopFacts DEF Progress
<1>6. CASE Return
  <2>1. /\ pc = "visit" /\ pc' = "returned" /\ i' = i /\ jobs' = jobs
        /\ stack' = stack /\ stack = <<>> /\ visited' = visited
    BY <1>6 DEF Return, graph
  <2>2. i = Len(jobs) + 1
    BY <1>6 DEF Return, TypeOK
  <2>3. Running' = Running
    BY <2>1 DEF Running
  <2> QED
    BY <2>1, <2>2, <2>3 DEF Progress
<1>7. CASE UNCHANGED vars
  BY <1>7 DEF vars, Progress, Running, graph
<1> QED
  BY <1>1, <1>2, <1>3, <1>4, <1>5, <1>6, <1>7 DEF Next

LEMMA IndexedStep == TypeOK /\ Progress /\ Indexed /\ [Next]_vars => Indexed'
<1> SUFFICES ASSUME TypeOK, Progress, Indexed, [Next]_vars,
                    NEW k \in DOMAIN jobs', pc' = "index" => k < i'
             PROVE  (jobs[jobIDIndex[jobs[k]]] = jobs[k])'
  BY DEF Indexed
<1>1. jobs' = jobs
  BY DEF Next, IndexJob, AllIndexed, VisitRoot, VisitDep, AppendJob, Return, vars, graph
<1>2. k \in DOMAIN jobs /\ jobs[k] \in ID /\ k \in Nat /\ i \in Nat
  BY <1>1 DEF TypeOK
<1>3. CASE IndexJob
  <2>1. /\ i \in DOMAIN jobs /\ jobs[i] \in ID
        /\ jobIDIndex' = [jobIDIndex EXCEPT ![jobs[i]] = i]
        /\ jobIDIndex \in [ID -> DOMAIN jobs \cup {1}]
        /\ pc = "index" /\ pc' = "index" /\ i' = i + 1
    BY <1>3 DEF IndexJob, TypeOK
  <2>2. CASE jobs[k] = jobs[i]
    BY <1>1, <1>2, <2>1, <2>2
  <2>3. CASE jobs[k] # jobs[i]
    <3>1. k < i
      BY <1>2, <2>1, <2>3
    <3>2. jobs[jobIDIndex[jobs[k]]] = jobs[k]
      BY <1>2, <2>1, <3>1 DEF Indexed
    <3> QED
      BY <1>1, <1>2, <2>1, <2>3, <3>2
  <2> QED
    BY <2>2, <2>3
<1>4. CASE ~ IndexJob
  <2>1. jobIDIndex' = jobIDIndex
    BY <1>4 DEF Next, AllIndexed, VisitRoot, VisitDep, AppendJob, Return, vars, graph
  <2>2. pc = "index" => k < i
    <3>1. CASE AllIndexed
      BY <1>2, <3>1 DEF AllIndexed, TypeOK
    <3>2. CASE VisitRoot \/ Return
      BY <3>2 DEF VisitRoot, Return
    <3>3. CASE VisitDep \/ AppendJob \/ UNCHANGED vars
      BY <3>3 DEF VisitDep, AppendJob, vars
    <3> QED
      BY <1>4, <3>1, <3>2, <3>3 DEF Next
  <2> QED
    BY <1>1, <1>2, <2>1, <2>2 DEF Indexed
<1> QED
  BY <1>3, <1>4

-----------------------------------------------------------------------------
(* The result holds the jobs whose call has returned, each as often.       *)

(* What is counted is finite.                                              *)
LEMMA CountFinite ==
  ASSUME TypeOK
  PROVE  /\ IsFiniteSet(DOMAIN jobs) /\ Cardinality(DOMAIN jobs) = Len(jobs)
         /\ IsFiniteSet(Finished)
         /\ \A id : /\ IsFiniteSet({k \in DOMAIN sorted : sorted[k] = id})
                    /\ IsFiniteSet({x \in Finished : jobs[x] = id})
<1>1. /\ DOMAIN jobs = 1..Len(jobs) /\ DOMAIN sorted = 1..Len(sorted)
      /\ Len(jobs) \in Nat /\ Len(sorted) \in Nat
  BY DEF TypeOK
<1>2. /\ IsFiniteSet(DOMAIN jobs) /\ IsFiniteSet(DOMAIN sorted)
      /\ Cardinality(DOMAIN jobs) = Len(jobs)
  <2>1. ASSUME NEW n \in Nat
        PROVE  IsFiniteSet(1..n) /\ Cardinality(1..n) = n
    <3>1. 1 \in Int /\ n \in Int
      BY <2>1
    <3>2. IsFiniteSet(1..n) /\ Cardinality(1..n) = IF 1 > n THEN 0 ELSE n - 1 + 1
      BY <3>1, FS_Interval, Zenon
    <3>3. (IF 1 > n THEN 0 ELSE n - 1 + 1) = n
      OBVIOUS
    <3> QED
      BY <3>2, <3>3
  <2> QED
    BY <1>1, <2>1
<1>3. Finished \in SUBSET DOMAIN jobs
  BY DEF Finished, TypeOK
<1>4. IsFiniteSet(Finished)
  BY <1>2, <1>3, FS_Subset
<1>5. ASSUME NEW id
      PROVE  /\ IsFiniteSet({k \in DOMAIN sorted : sorted[k] = id})
             /\ IsFiniteSet({x \in Finished : jobs[x] = id})
  <2>1. /\ {k \in DOMAIN sorted : sorted[k] = id} \in SUBSET DOMAIN sorted
        /\ {x \in Finished : jobs[x] = id} \in SUBSET Finished
    OBVIOUS
  <2> QED
    BY <1>2, <1>4, <2>1, FS_Subset
<1> QED
  BY <1>2, <1>4, <1>5

(* Both sides of a count grow by one, or neither does.                     *)
LEMMA CountBoth ==
  ASSUME NEW A, NEW B, NEW a, NEW b, NEW P \in BOOLEAN,
         IsFiniteSet(A), IsFiniteSet(B), a \notin A, b \notin B,
         Cardinality(A) = Cardinality(B)
  PROVE  Cardinality(A \cup (IF P THEN {a} ELSE {})) = Cardinality(B \cup (IF P THEN {b} ELSE {}))
<1>1. CASE P
  <2>1. /\ Cardinality(A \cup {a}) = Cardinality(A) + 1
        /\ Cardinality(B \cup {b}) = Cardinality(B) + 1
    BY FS_AddElement
  <2> QED
    BY <1>1, <2>1
<1>2. CASE ~ P
  <2>1. /\ A \cup (IF P THEN {a} ELSE {}) = A
        /\ B \cup (IF P THEN {b} ELSE {}) = B
    BY <1>2
  <2> QED
    BY <2>1
<1> QED
  BY <1>1, <1>2

LEMMA SortedGrows ==
  ASSUME TypeOK, AppendJob
  PROVE  /\ DOMAIN sorted = 1..Len(sorted) /\ Len(sorted) \in Nat
         /\ Len(sorted') = Len(sorted) + 1
         /\ DOMAIN sorted' = DOMAIN sorted \cup {Len(sorted) + 1}
         /\ Len(sorted) + 1 \notin DOMAIN sorted
         /\ sorted'[Len(sorted) + 1] = jobs[Top.job]
         /\ \A k \in DOMAIN sorted : sorted'[k] = sorted[k]
<1>1. /\ sorted \in Seq(Range(jobs)) /\ jobs[Top.job] \in Range(jobs)
      /\ sorted' = Append(sorted, jobs[Top.job])
  BY TopFacts DEF AppendJob, TypeOK
<1> DEFINE e == jobs[Top.job]
<1>2. e \in Range(jobs) /\ sorted' = Append(sorted, e)
  BY <1>1
<1> HIDE DEF e
<1>3. /\ DOMAIN sorted = 1..Len(sorted) /\ Len(sorted) \in Nat
      /\ Len(sorted') = Len(sorted) + 1
      /\ DOMAIN sorted' = 1..(Len(sorted) + 1)
      /\ sorted'[Len(sorted) + 1] = e
      /\ \A k \in DOMAIN sorted : sorted'[k] = sorted[k]
  BY <1>1, <1>2
<1>4. /\ DOMAIN sorted' = DOMAIN sorted \cup {Len(sorted) + 1}
      /\ Len(sorted) + 1 \notin DOMAIN sorted
  BY <1>3
<1> QED
  BY <1>3, <1>4 DEF e

LEMMA CountedAppend == TypeOK /\ Progress /\ Counted /\ AppendJob => Counted'
<1> SUFFICES ASSUME TypeOK, Progress, Counted, AppendJob PROVE Counted'
  OBVIOUS
<1> DEFINE t == Top.job
           n == Len(sorted) + 1
<1>1. /\ t \notin Finished /\ Finished' = Finished \cup {t} /\ jobs' = jobs
  BY PopFacts DEF AppendJob, graph
<1>2. /\ DOMAIN sorted' = DOMAIN sorted \cup {n} /\ n \notin DOMAIN sorted
      /\ sorted'[n] = jobs[t] /\ Len(sorted') = n /\ Len(sorted) \in Nat
      /\ \A k \in DOMAIN sorted : sorted'[k] = sorted[k]
  BY SortedGrows
<1> HIDE DEF t, n
<1>3. Cardinality(Finished') = Len(sorted')
  <2>1. Cardinality(Finished \cup {t}) = Cardinality(Finished) + 1
    BY <1>1, CountFinite, FS_AddElement
  <2> QED
    BY <1>1, <1>2, <2>1 DEF Counted, n
<1>4. ASSUME NEW id \in ID
      PROVE  Cardinality({k \in DOMAIN sorted' : sorted'[k] = id})
               = Cardinality({x \in Finished' : jobs'[x] = id})
  <2> DEFINE A == {k \in DOMAIN sorted : sorted[k] = id}
             B == {x \in Finished : jobs[x] = id}
             P == jobs[t] = id
  <2>1. /\ IsFiniteSet(A) /\ IsFiniteSet(B) /\ Cardinality(A) = Cardinality(B)
        /\ n \notin A /\ t \notin B /\ P \in BOOLEAN
    BY <1>1, <1>2, CountFinite DEF Counted
  <2>2. {k \in DOMAIN sorted' : sorted'[k] = id} = A \cup (IF P THEN {n} ELSE {})
    BY <1>2
  <2>3. {x \in Finished' : jobs'[x] = id} = B \cup (IF P THEN {t} ELSE {})
    BY <1>1
  <2> HIDE DEF A, B, P
  <2>4. Cardinality(A \cup (IF P THEN {n} ELSE {})) = Cardinality(B \cup (IF P THEN {t} ELSE {}))
    BY <2>1, CountBoth
  <2> QED
    BY <2>2, <2>3, <2>4
<1>5. \A x \in Finished' : jobs'[x] \in Range(sorted')
  BY <1>1, <1>2 DEF Counted, Range
<1> QED
  BY <1>3, <1>4, <1>5 DEF Counted

(* In every other step no call returns.                                    *)
LEMMA FinishedSame ==
  ASSUME TypeOK, Progress, [Next]_vars, ~ AppendJob
  PROVE  Finished' = Finished /\ sorted' = sorted /\ jobs' = jobs
<1>1. sorted' = sorted /\ jobs' = jobs
  BY DEF Next, IndexJob, AllIndexed, VisitRoot, VisitDep, Return, vars, graph
<1>2. CASE VisitRoot
  BY <1>1, <1>2, RootCall, CallFacts
<1>3. CASE VisitDep
  <2> DEFINE calls == [stack EXCEPT ![Len(stack)].dep = @ + 1]
             x == jobIDIndex[TopDeps[Top.dep]]
  <2>1. /\ calls \in Seq(Call) /\ DOMAIN calls = DOMAIN stack
        /\ \A a \in DOMAIN stack : calls[a].job = stack[a].job
        /\ x \in DOMAIN jobs /\ Visit(x, calls)
    BY <1>3, DepCall
  <2> HIDE DEF calls, x
  <2> QED
    BY <1>1, <2>1, CallFacts
<1>4. CASE visited' = visited /\ stack' = stack
  BY <1>1, <1>4 DEF Finished, Running
<1> QED
  BY <1>2, <1>3, <1>4 DEF Next, IndexJob, AllIndexed, Return, vars

LEMMA CountedStep == TypeOK /\ Progress /\ Counted /\ [Next]_vars => Counted'
<1> SUFFICES ASSUME TypeOK, Progress, Counted, [Next]_vars, ~ AppendJob PROVE Counted'
  BY CountedAppend
<1>1. Finished' = Finished /\ sorted' = sorted /\ jobs' = jobs
  BY FinishedSame
<1> QED
  BY <1>1 DEF Counted

-----------------------------------------------------------------------------
(* The dependencies of a call that runs.                                   *)

LEMMA DepsVisitedStep == TypeOK /\ Progress /\ DepsVisited /\ [Next]_vars => DepsVisited'
<1> SUFFICES ASSUME TypeOK, Progress, DepsVisited, [Next]_vars,
                    NEW a \in DOMAIN stack'
             PROVE  /\ stack'[a].dep <= Len(deps[jobs[stack'[a].job]]) + 1
                    /\ \A q \in 1..(stack'[a].dep - 1) :
                          jobIDIndex'[deps[jobs[stack'[a].job]][q]] \in visited'
  <2>1. [Next]_vars => jobs' = jobs /\ deps' = deps
    BY DEF Next, IndexJob, AllIndexed, VisitRoot, VisitDep, AppendJob, Return, vars, graph
  <2> QED
    BY <2>1 DEF DepsVisited
<1> DEFINE Fine(c) == /\ c.dep <= Len(deps[jobs[c.job]]) + 1
                      /\ \A q \in 1..(c.dep - 1) : jobIDIndex[deps[jobs[c.job]][q]] \in visited
<1>1. \A b \in DOMAIN stack : Fine(stack[b])
  BY DEF DepsVisited
<1>2. ASSUME NEW b \in DOMAIN stack, stack'[a] = stack[b],
             jobIDIndex' = jobIDIndex, visited \subseteq visited'
      PROVE  /\ stack'[a].dep <= Len(deps[jobs[stack'[a].job]]) + 1
             /\ \A q \in 1..(stack'[a].dep - 1) :
                   jobIDIndex'[deps[jobs[stack'[a].job]][q]] \in visited'
  BY <1>1, <1>2
<1>3. ASSUME NEW x \in DOMAIN jobs, stack'[a] = [job |-> x, dep |-> 1]
      PROVE  /\ stack'[a].dep <= Len(deps[jobs[stack'[a].job]]) + 1
             /\ \A q \in 1..(stack'[a].dep - 1) :
                   jobIDIndex'[deps[jobs[stack'[a].job]][q]] \in visited'
  <2>1. Len(deps[jobs[x]]) \in Nat
    BY DEF TypeOK
  <2>2. stack'[a].dep = 1 /\ stack'[a].job = x /\ 1..(1 - 1) = {}
    BY <1>3
  <2> QED
    BY <2>1, <2>2
<1>4. CASE IndexJob \/ AllIndexed \/ Return
  <2>1. stack = <<>> /\ stack' = stack
    BY <1>4 DEF IndexJob, AllIndexed, Return, Progress
  <2> QED
    BY <2>1
<1>5. CASE VisitRoot
  <2>1. /\ stack = <<>> /\ jobIDIndex' = jobIDIndex /\ i \in DOMAIN jobs
        /\ \/ stack' = stack
           \/ /\ DOMAIN stack' = 1..(Len(stack) + 1)
              /\ stack'[Len(stack) + 1] = [job |-> i, dep |-> 1]
    BY <1>5, RootCall, VisitFacts DEF VisitRoot
  <2>2. a = Len(stack) + 1 /\ stack'[a] = [job |-> i, dep |-> 1]
    BY <2>1
  <2> QED
    BY <1>3, <2>1, <2>2
<1>6. CASE VisitDep
  <2> DEFINE calls == [stack EXCEPT ![Len(stack)].dep = @ + 1]
             x == jobIDIndex[TopDeps[Top.dep]]
             n == Len(stack)
  <2>1. /\ stack # <<>> /\ calls \in Seq(Call) /\ Len(calls) = n
        /\ DOMAIN calls = DOMAIN stack /\ Top.dep \in DOMAIN TopDeps
        /\ x \in DOMAIN jobs /\ Visit(x, calls) /\ jobIDIndex' = jobIDIndex
    BY <1>6, DepCall DEF VisitDep
  <2>2. /\ calls[n] = [job |-> Top.job, dep |-> Top.dep + 1]
        /\ \A b \in DOMAIN stack \ {n} : calls[b] = stack[b]
    BY <2>1, MovedOn
  <2>3. /\ DOMAIN stack = 1..n /\ n \in Nat \ {0} /\ Top = stack[n]
        /\ Top.dep \in Nat \ {0} /\ TopDeps \in Seq(ID)
    BY <2>1, TopFacts DEF Top
  <2> HIDE DEF calls
  <2>4. /\ visited \subseteq visited' /\ x \in visited'
        /\ \/ stack' = calls
           \/ /\ DOMAIN stack' = 1..(n + 1)
              /\ stack'[n + 1] = [job |-> x, dep |-> 1]
              /\ \A b \in 1..n : stack'[b] = calls[b]
    BY <2>1, VisitFacts
  <2>5. CASE a = n + 1
    BY <1>3, <2>1, <2>3, <2>4, <2>5
  <2>6. CASE a # n + 1 /\ a # n
    <3>1. a \in DOMAIN stack \ {n} /\ stack'[a] = calls[a]
      BY <2>1, <2>3, <2>4, <2>6
    <3>2. stack'[a] = stack[a]
      BY <2>2, <3>1
    <3> QED
      BY <1>2, <2>1, <2>4, <3>1, <3>2
  <2>7. CASE a = n
    <3>1. stack'[a].job = Top.job /\ stack'[a].dep = Top.dep + 1
      BY <2>1, <2>2, <2>3, <2>4, <2>7
    <3>2. Top.dep <= Len(TopDeps) /\ Len(TopDeps) \in Nat
      BY <2>1, <2>3
    <3>3. ASSUME NEW q \in 1..Top.dep
          PROVE  jobIDIndex[TopDeps[q]] \in visited'
      <4>1. CASE q = Top.dep
        BY <2>4, <4>1
      <4>2. CASE q # Top.dep
        <5>1. q \in 1..(Top.dep - 1)
          BY <2>3, <4>2
        <5>2. jobIDIndex[TopDeps[q]] \in visited
          BY <1>1, <2>3, <5>1 DEF TopDeps
        <5> QED
          BY <2>4, <5>2
      <4> QED
        BY <4>1, <4>2
    <3>4. (Top.dep + 1) - 1 = Top.dep
      BY <2>3
    <3>5. TopDeps = deps[jobs[stack'[a].job]]
      BY <3>1 DEF TopDeps
    <3>6. stack'[a].dep <= Len(TopDeps) + 1
      BY <2>3, <3>1, <3>2
    <3>7. \A q \in 1..(stack'[a].dep - 1) : jobIDIndex'[TopDeps[q]] \in visited'
      BY <2>1, <3>1, <3>3, <3>4
    <3> QED
      BY <3>5, <3>6, <3>7
  <2> QED
    BY <2>5, <2>6, <2>7
<1>7. CASE AppendJob
  BY <1>2, <1>7, PopFacts DEF AppendJob
<1>8. CASE UNCHANGED vars
  BY <1>2, <1>8 DEF vars
<1> QED
  BY <1>4, <1>5, <1>6, <1>7, <1>8 DEF Next

(* An ID leads to a job with this ID, once the first loop is through.      *)
LEMMA Leads ==
  ASSUME TypeOK, Indexed, pc # "index", NEW id \in Range(jobs)
  PROVE  jobs[jobIDIndex[id]] = id
BY DEF Indexed, Range

LEMMA GraphSame ==
  ASSUME [Next]_vars
  PROVE  /\ jobs' = jobs /\ deps' = deps /\ (Closed' <=> Closed) /\ (Acyclic' <=> Acyclic)
         /\ \A rank : IsRank(rank)' <=> IsRank(rank)
<1>1. jobs' = jobs /\ deps' = deps
  BY DEF Next, IndexJob, AllIndexed, VisitRoot, VisitDep, AppendJob, Return, vars, graph
<1> QED
  BY <1>1 DEF Closed, Acyclic, IsRank

LEMMA StackDescendsStep ==
  TypeOK /\ Progress /\ Indexed /\ StackDescends /\ [Next]_vars => StackDescends'
<1> SUFFICES ASSUME TypeOK, Progress, Indexed, StackDescends, [Next]_vars, Closed,
                    NEW rank \in [Range(jobs) -> 1..Len(jobs)], IsRank(rank),
                    NEW a \in DOMAIN stack', NEW b \in DOMAIN stack', a < b
             PROVE  rank[jobs[stack'[b].job]] < rank[jobs[stack'[a].job]]
  BY GraphSame DEF StackDescends
<1>1. \A c, d \in DOMAIN stack :
         c < d => rank[jobs[stack[d].job]] < rank[jobs[stack[c].job]]
  BY DEF StackDescends
<1>2. CASE IndexJob \/ AllIndexed \/ Return \/ UNCHANGED vars
  BY <1>1, <1>2 DEF IndexJob, AllIndexed, Return, vars
<1>3. CASE AppendJob
  BY <1>1, <1>3, PopFacts
<1>4. CASE VisitRoot
  <2>1. stack = <<>> /\ (stack' = stack \/ DOMAIN stack' = 1..(Len(stack) + 1))
    BY <1>4, RootCall, VisitFacts DEF VisitRoot
  <2>2. a \in 1..1 /\ b \in 1..1
    BY <2>1
  <2> QED
    BY <2>2
<1>5. CASE VisitDep
  <2> DEFINE calls == [stack EXCEPT ![Len(stack)].dep = @ + 1]
             x == jobIDIndex[TopDeps[Top.dep]]
             n == Len(stack)
             r == jobs[Top.job]
  <2>1. /\ stack # <<>> /\ calls \in Seq(Call) /\ Len(calls) = n
        /\ \A c \in DOMAIN stack : calls[c].job = stack[c].job
        /\ DOMAIN calls = DOMAIN stack /\ Top.dep \in DOMAIN TopDeps
        /\ x \in DOMAIN jobs /\ Visit(x, calls)
    BY <1>5, DepCall DEF VisitDep
  <2>2. /\ DOMAIN stack = 1..n /\ n \in Nat \ {0} /\ Top = stack[n]
        /\ r \in Range(jobs) /\ n \in DOMAIN stack
    BY <2>1, TopFacts DEF Top
  <2>3. jobs[x] \in Range(jobs) /\ rank[jobs[x]] < rank[r]
    <3>1. TopDeps[Top.dep] \in Range(deps[r]) /\ TopDeps[Top.dep] \in Range(jobs)
      BY <2>1, <2>2 DEF TopDeps, Range, Closed
    <3>2. jobs[x] = TopDeps[Top.dep]
      BY <2>1, <3>1, Leads DEF Progress
    <3> QED
      BY <2>2, <3>1, <3>2 DEF IsRank
  <2>4. \A c \in DOMAIN stack : jobs[stack[c].job] \in Range(jobs)
    BY StackType DEF Call, Range
  <2>5. \A id \in Range(jobs) : rank[id] \in Int
    BY DEF TypeOK
  <2> HIDE DEF calls, x
  <2>6. ASSUME NEW c \in DOMAIN stack
        PROVE  rank[jobs[x]] < rank[jobs[stack[c].job]]
    <3>1. CASE c = n
      <4>1. stack[c].job = Top.job
        BY <2>2, <3>1
      <4> QED
        BY <2>3, <4>1
    <3>2. CASE c # n
      <4>1. rank[r] < rank[jobs[stack[c].job]]
        BY <1>1, <2>2, <3>2
      <4>2. rank[r] \in Int /\ rank[jobs[x]] \in Int /\ rank[jobs[stack[c].job]] \in Int
        BY <2>2, <2>3, <2>4, <2>5
      <4> QED
        BY <2>3, <4>1, <4>2
    <3> QED
      BY <3>1, <3>2
  <2>7. \/ stack' = calls
        \/ /\ DOMAIN stack' = 1..(n + 1)
           /\ stack'[n + 1] = [job |-> x, dep |-> 1]
           /\ \A c \in 1..n : stack'[c] = calls[c]
    BY <2>1, VisitFacts
  <2>8. CASE b \in DOMAIN stack
    <3>1. a \in DOMAIN stack
      BY <2>1, <2>2, <2>7, <2>8
    <3>2. stack'[a].job = stack[a].job /\ stack'[b].job = stack[b].job
      BY <2>1, <2>2, <2>7, <2>8, <3>1
    <3> QED
      BY <1>1, <2>8, <3>1, <3>2
  <2>9. CASE b \notin DOMAIN stack
    <3>1. a \in DOMAIN stack /\ b = n + 1
      BY <2>1, <2>2, <2>7, <2>9
    <3>2. stack'[a].job = stack[a].job /\ stack'[b].job = x
      BY <2>1, <2>2, <2>7, <2>9, <3>1
    <3> QED
      BY <2>6, <3>1, <3>2
  <2> QED
    BY <2>8, <2>9
<1> QED
  BY <1>2, <1>3, <1>4, <1>5 DEF Next

-----------------------------------------------------------------------------
(* The order of the result.                                                *)

(* On a graph without cycles the dependencies of a call that is through    *)
(* are in the result: their calls have returned.                           *)
LEMMA DepsReturned ==
  ASSUME TypeOK, Indexed, Progress, Counted, DepsVisited, StackDescends,
         AppendJob, Closed, Acyclic, NEW dep \in Range(deps[jobs[Top.job]])
  PROVE  dep \in Range(sorted)
<1> DEFINE x == jobIDIndex[dep]
           r == jobs[Top.job]
           n == Len(stack)
<1>1. /\ stack # <<>> /\ Top.dep > Len(TopDeps) /\ pc # "index"
  BY DEF AppendJob, Progress
<1>2. /\ DOMAIN stack = 1..n /\ n \in Nat \ {0} /\ Top = stack[n] /\ n \in DOMAIN stack
      /\ Top.dep \in Nat \ {0} /\ TopDeps \in Seq(ID) /\ TopDeps = deps[r]
      /\ r \in Range(jobs)
  BY <1>1, TopFacts DEF Top, TopDeps
<1>3. PICK q \in DOMAIN TopDeps : dep = TopDeps[q]
  BY <1>2 DEF Range
<1>4. q \in 1..(Top.dep - 1)
  BY <1>1, <1>2
<1>5. x \in visited
  BY <1>2, <1>3, <1>4 DEF DepsVisited
<1>6. dep \in Range(jobs) /\ jobs[x] = dep
  <2>1. dep \in Range(jobs)
    BY <1>2 DEF Closed
  <2> QED
    BY <1>1, <2>1, Leads
<1>7. x \notin Running
  <2> SUFFICES ASSUME NEW a \in DOMAIN stack, stack[a].job = x PROVE FALSE
    BY DEF Running
  <2>1. PICK rank \in [Range(jobs) -> 1..Len(jobs)] : IsRank(rank)
    BY DEF Acyclic
  <2>2. rank[dep] < rank[r] /\ rank[dep] \in Int /\ rank[r] \in Int
    <3>1. dep \in Range(deps[r]) \cap Range(jobs)
      BY <1>6
    <3>2. rank[dep] < rank[r]
      BY <1>2, <2>1, <3>1 DEF IsRank
    <3>3. \A id \in Range(jobs) : rank[id] \in Int
      BY <2>1
    <3> QED
      BY <1>2, <1>6, <3>2, <3>3
  <2>3. CASE a = n
    BY <1>2, <1>6, <2>2, <2>3
  <2>4. CASE a # n
    <3>1. a < n
      BY <1>2, <2>4
    <3>2. rank[jobs[stack[n].job]] < rank[jobs[stack[a].job]]
      BY <1>2, <2>1, <3>1 DEF StackDescends
    <3> QED
      BY <1>2, <1>6, <2>2, <3>2
  <2> QED
    BY <2>3, <2>4
<1> QED
  BY <1>5, <1>6, <1>7 DEF Finished, Counted

LEMMA SortedAfterDepsStep == SortInv /\ [Next]_vars => SortedAfterDeps'
<1> SUFFICES ASSUME SortInv, [Next]_vars, Closed, Acyclic,
                    NEW k \in DOMAIN sorted', NEW dep \in Range(deps[sorted'[k]])
             PROVE  \E m \in 1..(k - 1) : sorted'[m] = dep
  BY GraphSame DEF SortedAfterDeps
<1>1. CASE AppendJob
  <2>1. /\ DOMAIN sorted = 1..Len(sorted) /\ Len(sorted) \in Nat
        /\ DOMAIN sorted' = DOMAIN sorted \cup {Len(sorted) + 1}
        /\ sorted'[Len(sorted) + 1] = jobs[Top.job]
        /\ \A m \in DOMAIN sorted : sorted'[m] = sorted[m]
    BY <1>1, SortedGrows DEF SortInv
  <2>2. CASE k \in DOMAIN sorted
    <3>1. PICK m \in 1..(k - 1) : sorted[m] = dep
      BY <2>1, <2>2 DEF SortInv, SortedAfterDeps
    <3>2. m \in DOMAIN sorted
      BY <2>1, <2>2
    <3> QED
      BY <2>1, <3>1, <3>2
  <2>3. CASE k \notin DOMAIN sorted
    <3>1. k = Len(sorted) + 1 /\ dep \in Range(deps[jobs[Top.job]])
      BY <2>1, <2>3
    <3>2. PICK m \in DOMAIN sorted : sorted[m] = dep
      BY <1>1, <3>1, DepsReturned DEF SortInv, Range
    <3>3. m \in 1..(k - 1)
      BY <2>1, <3>1
    <3> QED
      BY <2>1, <3>2, <3>3
  <2> QED
    BY <2>2, <2>3
<1>2. CASE ~ AppendJob
  <2>1. sorted' = sorted
    BY <1>2, FinishedSame DEF SortInv
  <2> QED
    BY <2>1 DEF SortInv, SortedAfterDeps
<1> QED
  BY <1>1, <1>2

-----------------------------------------------------------------------------
(* The theorems.                                                           *)

LEMMA SortInvInit == Init => SortInv
<1> SUFFICES ASSUME Init PROVE SortInv
  OBVIOUS
<1>1. TypeOK
  BY TypeInit
<1>2. Indexed
  <2>1. DOMAIN jobs = 1..Len(jobs) /\ i = 1 /\ pc = "index"
    BY <1>1 DEF Init, TypeOK
  <2>2. \A k \in DOMAIN jobs : ~ (k < i)
    BY <2>1
  <2> QED
    BY <2>1, <2>2 DEF Indexed
<1>3. Progress
  BY DEF Init, Progress, Running
<1>4. Finished = {} /\ sorted = <<>> /\ stack = <<>>
  BY DEF Init, Finished
<1>5. Counted
  <2>1. Cardinality({}) = 0
    BY FS_EmptySet
  <2>2. Cardinality(Finished) = Len(sorted)
    BY <1>4, <2>1
  <2>3. ASSUME NEW id \in ID
        PROVE  Cardinality({k \in DOMAIN sorted : sorted[k] = id})
                 = Cardinality({x \in Finished : jobs[x] = id})
    <3>1. {k \in DOMAIN sorted : sorted[k] = id} = {} /\ {x \in Finished : jobs[x] = id} = {}
      BY <1>4
    <3> QED
      BY <3>1
  <2> QED
    BY <1>4, <2>2, <2>3 DEF Counted
<1>6. DepsVisited /\ StackDescends /\ SortedAfterDeps
  BY <1>4 DEF DepsVisited, StackDescends, SortedAfterDeps
<1> QED
  BY <1>1, <1>2, <1>3, <1>5, <1>6 DEF SortInv

(* Whatever the graph: the calls that run are marked and for jobs of their *)
(* own, what has returned is in the result, and without cycles what is in  *)
(* the result comes after its dependencies.                                *)
THEOREM SortInvariant == Spec => []SortInv
<1>1. Init => SortInv
  BY SortInvInit
<1>2. SortInv /\ [Next]_vars => SortInv'
  <2> SUFFICES ASSUME SortInv, [Next]_vars PROVE SortInv'
    OBVIOUS
  <2>1. TypeOK' /\ Progress' /\ Indexed'
    BY TypeStep, ProgressStep, IndexedStep DEF SortInv
  <2>2. Counted' /\ DepsVisited' /\ StackDescends'
    BY CountedStep, DepsVisitedStep, StackDescendsStep DEF SortInv
  <2> QED
    BY <2>1, <2>2, SortedAfterDepsStep DEF SortInv
<1> QED
  BY <1>1, <1>2, PTL DEF Spec

(* Once TopSort has returned, every call has.                              *)
LEMMA AllFinished ==
  ASSUME SortInv, pc = "returned"
  PROVE  Finished = DOMAIN jobs
<1>1. stack = <<>> /\ 1..Len(jobs) \subseteq visited
  BY DEF SortInv, TypeOK, Progress
<1>2. DOMAIN jobs = 1..Len(jobs) /\ visited \subseteq DOMAIN jobs
  BY DEF SortInv, TypeOK
<1>3. Running = {}
  BY <1>1 DEF Running
<1> QED
  BY <1>1, <1>2, <1>3 DEF Finished

(* TopSort returns every job of a graph as often as it was sent, whatever  *)
(* the graph (top_sort.go:13-30).                                          *)
THEOREM NoJobIsLostOrDoubled == Spec => []EveryJobSorted
<1>1. SortInv => EveryJobSorted
  <2> SUFFICES ASSUME SortInv, pc = "returned", NEW id \in ID
               PROVE  Cardinality({k \in DOMAIN sorted : sorted[k] = id})
                        = Cardinality({k \in DOMAIN jobs : jobs[k] = id})
    BY DEF EveryJobSorted
  <2>1. Cardinality({k \in DOMAIN sorted : sorted[k] = id})
          = Cardinality({x \in Finished : jobs[x] = id})
    BY DEF SortInv, Counted
  <2> QED
    BY <2>1, AllFinished
<1> QED
  BY <1>1, SortInvariant, PTL

(* On a graph without cycles that holds all its dependencies, a job comes  *)
(* after them: SignalBuild never waits for a job that it has yet to        *)
(* schedule itself (coordinator.go:160-178).                               *)
THEOREM SortIsATopologicalOrder == Spec => []DepsSortedFirst
<1>1. SortInv => DepsSortedFirst
  <2> SUFFICES ASSUME SortInv, pc = "returned", Closed, Acyclic
               PROVE  IsTopOrder(sorted, jobs, deps)
    BY DEF DepsSortedFirst
  <2>1. Len(sorted) = Len(jobs)
    BY AllFinished, CountFinite DEF SortInv, Counted
  <2>2. Range(sorted) = Range(jobs)
    <3>1. Range(sorted) \subseteq Range(jobs)
      BY DEF SortInv, TypeOK, Range
    <3>2. \A x \in DOMAIN jobs : jobs[x] \in Range(sorted)
      BY AllFinished DEF SortInv, Counted
    <3> QED
      BY <3>1, <3>2 DEF Range
  <2> QED
    BY <2>1, <2>2 DEF IsTopOrder, SortInv, SortedAfterDeps
<1> QED
  BY <1>1, SortInvariant, PTL

(* No two calls of visit run for the same job, so they are never nested    *)
(* deeper than the graph has jobs, a cycle or not (top_sort.go:14-22).     *)
THEOREM RecursionEnds == Spec => []RecursionBounded
<1>1. SortInv => RecursionBounded
  <2> SUFFICES ASSUME SortInv PROVE Len(stack) <= Len(jobs)
    BY DEF RecursionBounded
  <2> DEFINE f == [a \in DOMAIN stack |-> stack[a].job]
  <2>1. /\ DOMAIN stack = 1..Len(stack) /\ Len(stack) \in Nat
        /\ \A a \in DOMAIN stack : stack[a].job \in DOMAIN jobs
    BY StackType DEF SortInv, Call
  <2>2. f \in Injection(DOMAIN stack, DOMAIN jobs)
    BY <2>1 DEF SortInv, Progress, Injection, IsInjective
  <2>3. Cardinality(DOMAIN stack) <= Cardinality(DOMAIN jobs)
    BY <2>2, CountFinite, FS_Injection DEF SortInv
  <2>4. Cardinality(DOMAIN stack) = Len(stack)
    <3>1. 1 \in Int /\ Len(stack) \in Int
      BY <2>1
    <3>2. Cardinality(1..Len(stack)) = IF 1 > Len(stack) THEN 0 ELSE Len(stack) - 1 + 1
      BY <3>1, FS_Interval, Zenon
    <3> QED
      BY <2>1, <3>2
  <2> QED
    BY <2>3, <2>4, CountFinite DEF SortInv
<1> QED
  BY <1>1, SortInvariant, PTL
=============================================================================
