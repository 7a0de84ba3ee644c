------------------------- MODULE StatusStreamProofs -------------------------
(***************************************************************************)
(* The response of POST /build, for every number of updates and capacity   *)
(* of the channel: no goroutine panics, and the stream is the one that     *)
(* BuildStream promises.  StreamInv (module StatusStream) is inductive.    *)
(***************************************************************************)
EXTENDS StatusStream, SequenceTheorems, TLAPS

Line == {"started", "error", "job"} \cup Final

-----------------------------------------------------------------------------
(* What was handed over: the lines that are written, less the first, and   *)
(* the updates in the channel.                                             *)

(* A queue behind the lines, when an update is put into it.                *)
LEMMA ConcatPut ==
  ASSUME NEW S, NEW s \in Seq(S), NEW q \in Seq(S), NEW u \in S
  PROVE  s \o Append(q, u) = Append(s \o q, u)
<1>1. Append(q, u) = q \o <<u>> /\ <<u>> \in Seq(S)
  BY AppendIsConcat
<1>2. s \o q \in Seq(S)
  BY ConcatProperties
<1>3. Append(s \o q, u) = (s \o q) \o <<u>>
  BY <1>2, AppendIsConcat
<1> QED
  BY <1>1, <1>3, ConcatAssociative

(* An update that moves from the queue to the lines.                       *)
LEMMA ConcatShift ==
  ASSUME NEW S, NEW s \in Seq(S), NEW q \in Seq(S), q # <<>>
  PROVE  /\ Append(s, Head(q)) \o Tail(q) = s \o q
         /\ (s \o q)[Len(s) + 1] = Head(q)
         /\ Len(s \o q) >= Len(s) + 1
<1>1. /\ Head(q) \in S /\ Tail(q) \in Seq(S) /\ <<Head(q)>> \in Seq(S)
      /\ Len(q) \in Nat \ {0} /\ Len(s) \in Nat /\ Head(q) = q[1]
  OBVIOUS
<1>2. <<Head(q)>> \o Tail(q) = q
  OBVIOUS
<1>3. Append(s, Head(q)) = s \o <<Head(q)>>
  BY <1>1, AppendIsConcat
<1>4. (s \o <<Head(q)>>) \o Tail(q) = s \o (<<Head(q)>> \o Tail(q))
  BY <1>1, ConcatAssociative
<1>5. /\ Len(s \o q) = Len(s) + Len(q)
      /\ (s \o q)[Len(s) + 1] = q[1]
  BY <1>1, ConcatProperties
<1> QED
  BY <1>1, <1>2, <1>3, <1>4, <1>5

LEMMA SentFacts ==
  ASSUME StreamInv
  PROVE  /\ upds \in Seq(Line) /\ body \in Seq(Line) /\ Sent \in Seq(Line)
         /\ body # <<>> => /\ Tail(body) \in Seq(Line) /\ Len(body) = Len(Tail(body)) + 1
                           /\ Sent = Tail(body) \o upds
<1>1. body \in Seq(Line) /\ upds \in Seq({"job"} \cup Final)
  BY DEF StreamInv, Responds, StreamTypeOK, Line
<1>2. upds \in Seq(Line)
  BY <1>1, SeqMonotonic DEF Line
<1>3. body # <<>> => /\ Tail(body) \in Seq(Line) /\ Len(body) = Len(Tail(body)) + 1
                     /\ Sent = Tail(body) \o upds
  BY <1>1, <1>2, HeadTailProperties DEF Sent
<1> QED
  BY <1>1, <1>2, <1>3, ConcatProperties DEF Sent

LEMMA SentPut ==
  ASSUME StreamInv, body # <<>>, NEW u \in {"job"} \cup Final, upds' = Append(upds, u),
         UNCHANGED body
  PROVE  Sent' = Append(Sent, u)
<1>1. /\ upds \in Seq(Line) /\ Tail(body) \in Seq(Line) /\ u \in Line
      /\ Sent = Tail(body) \o upds
  BY SentFacts DEF Line
<1>2. Sent' = Tail(body) \o Append(upds, u)
  BY DEF Sent
<1> QED
  BY <1>1, <1>2, ConcatPut

LEMMA SentShift ==
  ASSUME StreamInv, body # <<>>, upds # <<>>,
         body' = Append(body, Head(upds)), upds' = Tail(upds)
  PROVE  /\ Sent' = Sent
         /\ Len(body) <= Len(Sent) /\ Sent[Len(body)] = Head(upds)
<1>1. /\ upds \in Seq(Line) /\ body \in Seq(Line) /\ Tail(body) \in Seq(Line)
      /\ Len(body) = Len(Tail(body)) + 1 /\ Sent = Tail(body) \o upds
      /\ Head(upds) \in Line
  BY SentFacts, HeadTailProperties
<1>2. Tail(Append(body, Head(upds))) = Append(Tail(body), Head(upds))
  BY <1>1, HeadTailAppend
<1>3. body' # <<>> /\ Sent' = Append(Tail(body), Head(upds)) \o Tail(upds)
  BY <1>1, <1>2, AppendProperties DEF Sent
<1> QED
  BY <1>1, <1>3, ConcatShift

-----------------------------------------------------------------------------
(* StreamInv is inductive.                                                 *)

LEMMA StreamInit == Init => StreamInv
<1> SUFFICES ASSUME Init PROVE StreamInv
  OBVIOUS
<1> USE DEF Init
<1>1. StreamTypeOK
  <2>1. upds \in Seq({"job"} \cup Final) /\ Len(upds) = 0
    BY EmptySeq
  <2>2. client \in {"asks", "watches", "refused", "gone"} /\ shut \in BOOLEAN /\ atomics = {}
    OBVIOUS
  <2>3. \A t \in Thread : at[t] \in {"start", "idle"} /\ upd[t] = "job"
    OBVIOUS
  <2> QED
    BY <2>1, <2>2, <2>3, StreamAssumption DEF StreamTypeOK
<1>2. PICK n \in 0..Jobs : todo = [i \in 1..n + 1 |-> IF i <= n THEN "job" ELSE "finished"]
  BY DEF Init
<1>3. todo \in Seq({"job", "finished"}) /\ Len(todo) = n + 1
  BY <1>2, StreamAssumption
<1>4. \A i \in DOMAIN todo : todo[i] \in Final <=> i = Len(todo)
  BY <1>2, <1>3, StreamAssumption DEF Final
<1>5. OneSender /\ OneCloser /\ NoPanic
  BY <1>4 DEF OneSender, OneCloser, NoPanic, Thread, Handler, Heartbeat
<1>6. Responds
  BY DEF Responds, Thread, Handler, Heartbeat
<1> QED
  BY <1>1, <1>3, <1>5, <1>6 DEF StreamInv

(* A goroutine goes on, the other stays where it is.                       *)
LEMMA Stays ==
  ASSUME StreamTypeOK, NEW t \in Thread, NEW step, Goes(t, step)
  PROVE  at'[t] = step /\ \A u \in Thread \ {t} : at'[u] = at[u]
BY DEF StreamTypeOK, Goes

LEMMA CallerFacts ==
  ASSUME NEW t \in Thread
  PROVE  /\ Caller(t) \in {"idle", "loop", "begin", "service"}
         /\ t = Heartbeat => Caller(t) = "idle"
         /\ t = Handler /\ "buildStarted" \in atomics => Caller(t) = "loop"
         /\ t = Handler /\ "buildStarted" \notin atomics => Caller(t) \in {"begin", "service"}
<1>1. CASE t = Heartbeat
  BY <1>1 DEF Caller, Handler, Heartbeat
<1>2. CASE t = Handler /\ "buildStarted" \in atomics
  BY <1>2 DEF Caller, Handler, Heartbeat
<1>3. CASE t = Handler /\ "buildStarted" \notin atomics /\ upd[t] = "failed"
  BY <1>3 DEF Caller, Handler, Heartbeat
<1>4. CASE t = Handler /\ "buildStarted" \notin atomics /\ upd[t] # "failed"
  BY <1>4 DEF Caller, Handler, Heartbeat
<1> QED
  BY <1>1, <1>2, <1>3, <1>4 DEF Thread

LEMMA TypeStep ==
  ASSUME StreamInv, Next
  PROVE  StreamTypeOK' /\ service' \in {"background", "inline"} /\ todo' \in Seq({"job", "finished"})
<1>1. /\ StreamTypeOK /\ todo \in Seq({"job", "finished"}) /\ service \in {"background", "inline"}
      /\ Handler \in Thread /\ Heartbeat \in Thread
  BY DEF StreamInv, Thread
<1> USE DEF StreamTypeOK, Goes
<1>2. CASE Started \/ StartBuildFails \/ StartBuildReturns \/ Begin \/ EndOfStream \/ Cancelled
  BY <1>1, <1>2 DEF Started, StartBuildFails, StartBuildReturns, Begin, EndOfStream, Cancelled, LoopEnds
<1>3. CASE HandleError
  BY <1>1, <1>3 DEF HandleError, Final
<1>4. CASE Write
  <2>1. upds \in Seq({"job"} \cup Final) /\ upds # <<>>
    BY <1>1, <1>4 DEF Write
  <2>2. Tail(upds) \in Seq({"job"} \cup Final) /\ Len(Tail(upds)) = Len(upds) - 1
    BY <2>1, HeadTailProperties
  <2>3. Len(upds) \in Nat
    BY <2>1
  <2> QED
    BY <1>1, <1>4, <2>2, <2>3, StreamAssumption DEF Write
<1>5. CASE Answer \/ Leave
  BY <1>1, <1>5 DEF Answer, ClientGets, Leave
<1>6. ASSUME NEW t \in Thread, CallUpdated(t)
      PROVE  StreamTypeOK' /\ UNCHANGED service /\ todo' \in Seq({"job", "finished"})
  <2>1. Head(todo) \in {"job", "finished"} /\ Tail(todo) \in Seq({"job", "finished"})
    BY <1>1, <1>6, HeadTailProperties DEF CallUpdated
  <2> QED
    BY <1>1, <1>6, <2>1 DEF CallUpdated, Final
<1>7. ASSUME NEW t \in Thread, Updated(t)
      PROVE  StreamTypeOK' /\ UNCHANGED <<service, todo>>
  <2>1. Caller(t) \in {"idle", "loop", "begin", "service"}
    BY CallerFacts
  <2>2. CASE Send(t)
    <3>1. upd[t] \in {"job"} \cup Final
      BY <1>1
    <3>2. /\ Append(upds, upd[t]) \in Seq({"job"} \cup Final)
          /\ Len(Append(upds, upd[t])) = Len(upds) + 1 /\ Len(upds) \in Nat
      BY <1>1, <3>1, AppendProperties
    <3> QED
      BY <1>1, <2>2, <3>2, StreamAssumption DEF Send
  <2>3. CASE LoadClosed(t) \/ LoadStarted(t) \/ LoadFinished(t) \/ SwapClosed(t)
    BY <1>1, <2>1, <2>3 DEF LoadClosed, LoadStarted, LoadFinished, SwapClosed, Load
  <2>4. CASE StoreFinished(t) \/ Close(t)
    BY <1>1, <2>1, <2>4 DEF StoreFinished, Close
  <2> QED
    BY <1>7, <2>2, <2>3, <2>4 DEF Updated
<1> QED
  BY <1>1, <1>2, <1>3, <1>4, <1>5, <1>6, <1>7
  DEF Next, HandlerStep, HeartbeatStep, Started, StartBuildFails, StartBuildReturns, Begin, EndOfStream,
      Cancelled, LoopEnds, HandleError, Write, Answer, ClientGets, Leave

(* What the steps of Updated do.                                           *)
LEMMA UpdatedFacts ==
  ASSUME StreamInv, NEW t \in Thread, Updated(t)
  PROVE  /\ UNCHANGED <<service, todo, upd, body, client>>
         /\ \A u \in Thread \ {t} : at'[u] = at[u]
         /\ at[t] \in {"updated", "send", "store", "started?", "finished?", "swap", "close"}
         /\ \/ /\ at[t] = "updated" /\ UNCHANGED <<atomics, shut, upds>>
               /\ at'[t] = IF "closed" \in atomics THEN Caller(t) ELSE "send"
            \/ /\ at[t] = "send" /\ ~shut /\ UNCHANGED <<atomics, shut>>
               /\ upds' = Append(upds, upd[t])
               /\ at'[t] = IF upd[t] \in Final THEN "store" ELSE "started?"
            \/ /\ at[t] = "store" /\ UNCHANGED <<shut, upds>>
               /\ atomics' = atomics \cup {"buildFinished"}
               /\ at'[t] = "started?"
            \/ /\ at[t] = "started?" /\ UNCHANGED <<atomics, shut, upds>>
               /\ at'[t] = IF "buildStarted" \in atomics THEN "finished?" ELSE Caller(t)
            \/ /\ at[t] = "finished?" /\ UNCHANGED <<atomics, shut, upds>>
               /\ at'[t] = IF "buildFinished" \in atomics THEN "swap" ELSE Caller(t)
            \/ /\ at[t] = "swap" /\ UNCHANGED <<shut, upds>>
               /\ atomics' = atomics \cup {"closed"}
               /\ at'[t] = IF "closed" \in atomics THEN Caller(t) ELSE "close"
            \/ /\ at[t] = "close" /\ shut' /\ UNCHANGED <<atomics, upds>>
               /\ at'[t] = Caller(t)
<1>1. StreamTypeOK
  BY DEF StreamInv
<1>2. PICK step : Goes(t, step)
  BY DEF Updated, LoadClosed, Send, StoreFinished, LoadStarted, LoadFinished, SwapClosed, Close, Load
<1>3. \A u \in Thread \ {t} : at'[u] = at[u]
  BY <1>1, <1>2, Stays
<1>4. CASE Send(t) \/ StoreFinished(t) \/ Close(t)
  BY <1>1, <1>3, <1>4 DEF Send, StoreFinished, Close, Goes, StreamTypeOK
<1>5. CASE LoadClosed(t) \/ LoadStarted(t) \/ LoadFinished(t) \/ SwapClosed(t)
  BY <1>1, <1>3, <1>5 DEF LoadClosed, LoadStarted, LoadFinished, SwapClosed, Load, Goes, StreamTypeOK
<1> QED
  BY <1>4, <1>5 DEF Updated

(* What the steps of the handler outside Updated do.                       *)
LEMMA HandlerFacts ==
  ASSUME StreamInv,
         \/ Started \/ StartBuildFails \/ StartBuildReturns \/ HandleError \/ Begin
         \/ EndOfStream \/ Cancelled
  PROVE  /\ UNCHANGED <<service, shut, upds, todo, client>> /\ upd'[Heartbeat] = upd[Heartbeat]
         /\ at'[Heartbeat] = at[Heartbeat]
         /\ \/ /\ at[Handler] = "start" /\ at'[Handler] = "service"
               /\ atomics' = atomics \cup {"startedWriting"} /\ body' = <<"started">>
            \/ /\ at[Handler] \in {"start", "service"} /\ at'[Handler] = "error"
               /\ service = "inline" /\ UNCHANGED <<atomics, body>>
            \/ /\ at[Handler] = "service" /\ at'[Handler] = "begin"
               /\ UNCHANGED <<atomics, body>>
            \/ /\ at[Handler] = "error" /\ at'[Handler] = "updated"
               /\ "startedWriting" \in atomics /\ UNCHANGED body
               /\ atomics' = atomics \cup {"startedWriting"}
            \/ /\ at[Handler] = "error" /\ at'[Handler] = "returned"
               /\ "startedWriting" \notin atomics /\ body' = <<"error">>
               /\ atomics' = atomics \cup {"startedWriting"}
            \/ /\ at[Handler] = "begin" /\ at'[Handler] = "finished?"
               /\ atomics' = atomics \cup {"buildStarted"} /\ UNCHANGED body
            \/ /\ at[Handler] = "loop" /\ at'[Handler] = "returned"
               /\ UNCHANGED <<atomics, body>>
               /\ client = "gone" \/ (shut /\ upds = <<>>)
<1>1. /\ StreamTypeOK /\ Handler \in Thread /\ Heartbeat \in Thread \ {Handler}
      /\ at[Handler] = "error" => service = "inline"
  BY DEF StreamInv, OneSender, Thread, Handler, Heartbeat
<1>2. PICK step : Goes(Handler, step)
  BY DEF Started, StartBuildFails, StartBuildReturns, HandleError, Begin, EndOfStream, Cancelled, LoopEnds
<1>3. at'[Handler] = step /\ at'[Heartbeat] = at[Heartbeat]
  BY <1>1, <1>2, Stays
<1>4. CASE HandleError
  BY <1>1, <1>3, <1>4 DEF HandleError, Goes, StreamTypeOK
<1>5. CASE Started \/ StartBuildFails \/ StartBuildReturns \/ Begin \/ EndOfStream \/ Cancelled
  BY <1>1, <1>3, <1>5
  DEF Started, StartBuildFails, StartBuildReturns, Begin, EndOfStream, Cancelled, LoopEnds, Goes, StreamTypeOK
<1> QED
  BY <1>4, <1>5

(* What the call of Updated does.                                          *)
LEMMA CallFacts ==
  ASSUME StreamInv, NEW t \in Thread, CallUpdated(t)
  PROVE  /\ UNCHANGED <<service, upds, shut, atomics, body, client>>
         /\ at'[t] = "updated" /\ \A u \in Thread \ {t} : at'[u] = at[u]
         /\ upd'[t] = Head(todo) /\ \A u \in Thread \ {t} : upd'[u] = upd[u]
         /\ todo # <<>> /\ todo' = Tail(todo)
         /\ IF t = Handler THEN service = "inline" /\ at[t] = "service"
            ELSE service = "background" /\ at[t] = "idle" /\ at[Handler] \notin {"start", "service"}
BY Stays DEF StreamInv, CallUpdated, StreamTypeOK

(* One sender, whose last update is the final one.                         *)
LEMMA SenderStep ==
  ASSUME StreamInv, Next
  PROVE  OneSender'
<1>1. /\ StreamTypeOK /\ OneSender /\ todo \in Seq({"job", "finished"})
      /\ Handler \in Thread /\ Heartbeat \in Thread /\ Handler # Heartbeat
  BY DEF StreamInv, Thread, Handler, Heartbeat
<1>2. CASE \/ Started \/ StartBuildFails \/ StartBuildReturns \/ HandleError \/ Begin
           \/ EndOfStream \/ Cancelled
  BY <1>1, <1>2, HandlerFacts DEF OneSender, Thread
<1>3. CASE Write \/ Answer \/ Leave
  BY <1>1, <1>3 DEF Write, Answer, ClientGets, Leave, OneSender
<1>4. ASSUME NEW t \in Thread, CallUpdated(t)
      PROVE  OneSender'
  <2>1. /\ Len(todo) \in Nat \ {0} /\ Len(Tail(todo)) = Len(todo) - 1 /\ Head(todo) = todo[1]
        /\ Tail(todo) \in Seq({"job", "finished"})
        /\ \A i \in DOMAIN Tail(todo) : Tail(todo)[i] = todo[i + 1] /\ i + 1 \in DOMAIN todo
        /\ DOMAIN Tail(todo) = 1..(Len(todo) - 1)
    BY <1>1, <1>4, CallFacts
  <2>2. \A i \in DOMAIN todo' : todo'[i] \in Final <=> i = Len(todo')
    BY <1>1, <1>4, <2>1, CallFacts DEF OneSender
  <2>3. upd'[t] \in Final => todo' = <<>>
    <3>1. Head(todo) \in Final => Len(todo) = 1
      BY <1>1, <2>1 DEF OneSender
    <3>2. Len(todo) = 1 => Tail(todo) = <<>>
      BY <2>1, EmptySeq
    <3> QED
      BY <1>4, <3>1, <3>2, CallFacts
  <2>4. CASE t = Handler
    BY <1>1, <1>4, <2>2, <2>4, CallFacts DEF OneSender, Thread
  <2>5. CASE t = Heartbeat
    BY <1>1, <1>4, <2>2, <2>3, <2>5, CallFacts DEF OneSender, Thread
  <2> QED
    BY <2>4, <2>5 DEF Thread
<1>5. ASSUME NEW t \in Thread, Updated(t)
      PROVE  OneSender'
  BY <1>1, <1>5, UpdatedFacts, CallerFacts DEF OneSender, Thread
<1> QED
  BY <1>1, <1>2, <1>3, <1>4, <1>5 DEF Next, HandlerStep, HeartbeatStep

(* One closer.                                                             *)
LEMMA CloserStep ==
  ASSUME StreamInv, Next
  PROVE  OneCloser' /\ NoPanic'
<1>1. /\ StreamTypeOK /\ OneSender /\ OneCloser /\ NoPanic
      /\ Handler \in Thread /\ Heartbeat \in Thread /\ Handler # Heartbeat
  BY DEF StreamInv, Thread, Handler, Heartbeat
<1>2. SUFFICES OneCloser'
  <2>1. SUFFICES ASSUME OneCloser' PROVE NoPanic'
    BY <1>2
  <2>2. OneSender'
    BY SenderStep
  <2>3. service' \in {"background", "inline"}
    BY TypeStep
  <2> QED
    BY <2>1, <2>2, <2>3 DEF OneSender, OneCloser, NoPanic, Thread
<1>3. CASE \/ Started \/ StartBuildFails \/ StartBuildReturns \/ HandleError \/ Begin
           \/ EndOfStream \/ Cancelled
  BY <1>1, <1>3, HandlerFacts DEF OneCloser, Thread
<1>4. CASE Write \/ Answer \/ Leave
  BY <1>1, <1>4 DEF Write, Answer, ClientGets, Leave, OneCloser
<1>5. ASSUME NEW t \in Thread, CallUpdated(t)
      PROVE  OneCloser'
  BY <1>1, <1>5, CallFacts DEF OneCloser, Thread
<1>6. ASSUME NEW t \in Thread, Updated(t)
      PROVE  OneCloser'
  <2>1. CASE t = Handler
    BY <1>1, <1>6, <2>1, UpdatedFacts, CallerFacts DEF OneCloser, Thread
  <2>2. CASE t = Heartbeat
    BY <1>1, <1>6, <2>2, UpdatedFacts, CallerFacts DEF OneCloser, Thread
  <2> QED
    BY <2>1, <2>2 DEF Thread
<1> QED
  BY <1>1, <1>3, <1>4, <1>5, <1>6 DEF Next, HandlerStep, HeartbeatStep

(* What was handed over stays so, in this order.                           *)
LEMMA SentStarts ==
  ASSUME StreamInv, body = <<>>, NEW l \in Line, body' = <<l>>, UNCHANGED upds
  PROVE  Sent' = Sent
<1>1. upds \in Seq(Line) /\ Tail(<<l>>) = <<>> /\ <<l>> # <<>>
  BY SentFacts
<1> QED
  BY <1>1, ConcatEmptySeq DEF Sent

LEMMA SentStep ==
  ASSUME StreamInv, Next
  PROVE  \/ Sent' = Sent
         \/ \E t \in Thread : /\ Updated(t) /\ at[t] = "send" /\ body # <<>>
                              /\ Sent' = Append(Sent, upd[t])
<1>1. /\ StreamTypeOK /\ Responds
  BY DEF StreamInv
<1>2. CASE \/ Started \/ StartBuildFails \/ StartBuildReturns \/ HandleError \/ Begin
           \/ EndOfStream \/ Cancelled
  <2>1. UNCHANGED upds /\ (UNCHANGED body \/ (body = <<>> /\ \E l \in Line : body' = <<l>>))
    BY <1>1, <1>2, HandlerFacts DEF Responds, Line
  <2> QED
    BY <2>1, SentStarts DEF Sent
<1>3. CASE Write
  BY <1>1, <1>3, SentShift DEF Write, Responds
<1>4. CASE Answer \/ Leave
  BY <1>4 DEF Answer, ClientGets, Leave, Sent
<1>5. ASSUME NEW t \in Thread, CallUpdated(t)
      PROVE  Sent' = Sent
  BY <1>5, CallFacts DEF Sent
<1>6. ASSUME NEW t \in Thread, Updated(t)
      PROVE  \/ Sent' = Sent
             \/ at[t] = "send" /\ body # <<>> /\ Sent' = Append(Sent, upd[t])
  <2>1. CASE UNCHANGED <<upds, body>>
    BY <2>1 DEF Sent
  <2>2. CASE at[t] = "send" /\ upds' = Append(upds, upd[t]) /\ UNCHANGED body
    <3>1. upd[t] \in {"job"} \cup Final /\ body # <<>>
      BY <1>1, <2>2 DEF StreamTypeOK, Responds, Thread
    <3> QED
      BY <2>2, <3>1, SentPut
  <2> QED
    BY <1>6, <2>1, <2>2, UpdatedFacts
<1> QED
  BY <1>2, <1>3, <1>4, <1>5, <1>6 DEF Next, HandlerStep, HeartbeatStep, Thread

LEMMA RespondsStep ==
  ASSUME StreamInv, Next
  PROVE  Responds'
<1>1. /\ StreamTypeOK /\ OneSender /\ OneCloser /\ Responds
      /\ Handler \in Thread /\ Heartbeat \in Thread /\ Handler # Heartbeat
      /\ service \in {"background", "inline"}
  BY DEF StreamInv, Thread, Handler, Heartbeat
<1> DEFINE FinalSent == \E i \in DOMAIN Sent : Sent[i] \in Final
           Stored == "buildFinished" \in atomics \/ \E t \in Thread : at[t] = "store"
<1>2. Sent \in Seq(Line) /\ (FinalSent => FinalSent')
  <2>1. Sent \in Seq(Line)
    BY SentFacts
  <2>2. ASSUME NEW u \in Line, Sent' = Append(Sent, u)
        PROVE  FinalSent => FinalSent'
    BY <2>1, <2>2, AppendProperties
  <2>3. \A t \in Thread : upd[t] \in Line
    BY <1>1 DEF StreamTypeOK, Line
  <2> QED
    BY <2>1, <2>2, <2>3, SentStep
<1>3. CASE \/ Started \/ StartBuildFails \/ StartBuildReturns \/ HandleError \/ Begin
           \/ EndOfStream \/ Cancelled
  <2>1. body' \in Seq({"started", "error", "job"} \cup Final)
    <3>1. UNCHANGED body \/ body' = <<"started">> \/ body' = <<"error">>
      BY <1>3, HandlerFacts
    <3>2. {<<"started">>, <<"error">>} \subseteq Seq({"started", "error", "job"} \cup Final)
      OBVIOUS
    <3> QED
      BY <1>1, <3>1, <3>2 DEF Responds
  <2>2. Stored' => Stored
    BY <1>1, <1>3, HandlerFacts DEF Thread
  <2>3. /\ body' = <<>> <=> "startedWriting" \notin atomics'
        /\ at'[Handler] = "start" => body' = <<>>
        /\ body' = <<>> => at'[Handler] \in {"start", "error"} /\ at'[Heartbeat] = "idle"
        /\ body' = <<"error">> => service' = "inline"
        /\ at'[Handler] = "returned" => body' = <<"error">> \/ client' = "gone" \/ shut'
    BY <1>1, <1>3, HandlerFacts DEF Responds, OneSender
  <2> QED
    BY <1>1, <1>2, <2>1, <2>2, <2>3 DEF Responds
<1>4. CASE Write
  <2>1. /\ body # <<>> /\ at[Handler] = "loop" /\ Head(upds) \in {"started", "error", "job"} \cup Final
        /\ body' = Append(body, Head(upds)) /\ UNCHANGED <<service, shut, atomics, at, client>>
    BY <1>1, <1>4, HeadTailProperties DEF Write, Responds, StreamTypeOK
  <2>2. body' \in Seq({"started", "error", "job"} \cup Final)
    BY <1>1, <2>1 DEF Responds
  <2>3. body' # <<>> /\ body' # <<"error">>
    <3>1. /\ body \in Seq(Line) /\ <<>> \in Seq(Line) /\ "error" \in Line /\ Head(upds) \in Line
          /\ <<"error">> = Append(<<>>, "error")
      BY <1>1, <2>1 DEF Responds, Line
    <3>2. Append(body, Head(upds)) # Append(<<>>, "error")
      BY <2>1, <3>1, AppendInjective
    <3>3. Append(body, Head(upds)) # <<>>
      BY <3>1, AppendProperties
    <3> QED
      BY <2>1, <3>1, <3>2, <3>3
  <2> QED
    BY <1>1, <1>2, <2>1, <2>2, <2>3 DEF Responds
<1>5. CASE Answer \/ Leave
  <2>1. UNCHANGED <<service, shut, atomics, at, body>> /\ (client = "gone" => client' = "gone")
    BY <1>5 DEF Answer, ClientGets, Leave
  <2> QED
    BY <1>1, <1>2, <2>1 DEF Responds
<1>6. ASSUME NEW t \in Thread, CallUpdated(t)
      PROVE  Responds'
  <2>1. body # <<>> /\ (Stored' => Stored)
    <3>1. body # <<>>
      BY <1>1, <1>6, CallFacts DEF Responds, OneSender, Thread
    <3>2. Stored' => Stored
      BY <1>6, CallFacts
    <3> QED
      BY <3>1, <3>2
  <2> QED
    BY <1>1, <1>2, <1>6, <2>1, CallFacts DEF Responds, Thread
<1>7. ASSUME NEW t \in Thread, Updated(t)
      PROVE  Responds'
  <2>1. /\ body # <<>> /\ at[t] # "start" /\ at[t] # "error"
        /\ at'[t] \notin {"start", "returned"}
    BY <1>1, <1>7, UpdatedFacts, CallerFacts DEF Responds, Thread
  <2>2. Stored' => FinalSent'
    <3>1. CASE at[t] = "send" /\ upd[t] \in Final
      <4>1. upd[t] \in Line
        BY <3>1 DEF Line
      <4>2. upds' = Append(upds, upd[t]) /\ UNCHANGED body
        BY <1>7, <3>1, UpdatedFacts
      <4>3. Sent' = Append(Sent, upd[t])
        BY <2>1, <3>1, <4>2, SentPut
      <4> QED
        BY <1>2, <3>1, <4>1, <4>3, AppendProperties
    <3>2. CASE ~(at[t] = "send" /\ upd[t] \in Final)
      <4>1. Stored' => Stored
        BY <1>1, <1>7, <3>2, UpdatedFacts, CallerFacts DEF Thread
      <4> QED
        BY <1>1, <1>2, <4>1 DEF Responds
    <3> QED
      BY <3>1, <3>2
  <2>3. /\ UNCHANGED <<service, body, client>> /\ (shut => shut')
        /\ "startedWriting" \in atomics' <=> "startedWriting" \in atomics
        /\ \A u \in Thread \ {t} : at'[u] = at[u]
    BY <1>1, <1>7, UpdatedFacts DEF StreamTypeOK
  <2> QED
    BY <1>1, <2>1, <2>2, <2>3 DEF Responds, Thread
<1> QED
  BY <1>3, <1>4, <1>5, <1>6, <1>7 DEF Next, HandlerStep, HeartbeatStep, Thread

LEMMA StreamStep ==
  ASSUME StreamInv, [Next]_vars
  PROVE  StreamInv'
<1>1. CASE Next
  BY <1>1, TypeStep, SenderStep, CloserStep, RespondsStep DEF StreamInv
<1>2. CASE UNCHANGED vars
  BY <1>2 DEF vars, StreamInv, StreamTypeOK, OneSender, OneCloser, Responds, NoPanic, Sent
<1> QED
  BY <1>1, <1>2

THEOREM StreamInvariant == Spec => []StreamInv
<1> QED
  BY StreamInit, StreamStep, PTL DEF Spec

(* The channel and the atomics keep to their types, and no more updates    *)
(* wait in the channel than it has room for (build_handler.go:29).         *)
THEOREM StreamTypeCorrect == Spec => []StreamTypeOK
<1>1. StreamInv => StreamTypeOK
  BY DEF StreamInv
<1> QED
  BY <1>1, StreamInvariant, PTL

(* No goroutine sends on the closed channel or closes it twice             *)
(* (build_handler.go:48,53,144), however their accesses interleave.        *)
THEOREM NobodyPanics == Spec => []NoPanic
<1>1. StreamInv => NoPanic
  BY DEF StreamInv
<1> QED
  BY <1>1, StreamInvariant, PTL

-----------------------------------------------------------------------------
(* The refinement, step by step.                                           *)

LEMMA StreamRefined ==
  ASSUME StreamInv, [Next]_vars
  PROVE  [Stream!Next]_(Stream!vars)
<1>1. /\ StreamTypeOK /\ OneSender /\ OneCloser /\ Responds /\ NoPanic
      /\ Handler \in Thread /\ Heartbeat \in Thread /\ Handler # Heartbeat
      /\ service \in {"background", "inline"}
  BY DEF StreamInv, Thread, Handler, Heartbeat
<1> USE DEF Stream!Next, Stream!vars
<1>2. ASSUME \/ Started \/ StartBuildFails \/ StartBuildReturns \/ HandleError \/ Begin
             \/ EndOfStream \/ Cancelled
      PROVE  [Stream!Next]_(Stream!vars)
  <2>1. CASE at[Handler] = "start" /\ at'[Handler] = "service" /\ body' = <<"started">>
    <3>1. body = <<>> /\ UNCHANGED <<client, upds>>
      BY <1>1, <1>2, <2>1, HandlerFacts DEF Responds
    <3>2. Sent' = Sent
      BY <2>1, <3>1, SentStarts DEF Line
    <3> QED
      BY <2>1, <3>1, <3>2 DEF Stream!Start
  <2>2. CASE at[Handler] = "error" /\ at'[Handler] = "returned" /\ body' = <<"error">>
             /\ "startedWriting" \notin atomics
    <3>1. body = <<>> /\ UNCHANGED <<client, upds>>
      BY <1>1, <1>2, <2>2, HandlerFacts DEF Responds
    <3>2. Sent' = Sent
      BY <2>2, <3>1, SentStarts DEF Line
    <3> QED
      BY <2>2, <3>1, <3>2 DEF Stream!Refuse
  <2>3. CASE at[Handler] = "loop" /\ at'[Handler] = "returned"
    <3>1. /\ UNCHANGED <<client, body, upds>> /\ (client = "gone" \/ (shut /\ upds = <<>>))
      BY <1>2, <2>3, HandlerFacts
    <3>2. Sent' = Sent
      BY <3>1 DEF Sent
    <3>3. CASE client = "gone"
      BY <2>3, <3>1, <3>2, <3>3 DEF Stream!End
    <3>4. CASE shut /\ upds = <<>>
      <4>1. "buildFinished" \in atomics /\ body # <<>>
        BY <1>1, <2>3, <3>4 DEF OneCloser, Responds
      <4>2. \E i \in DOMAIN Sent : Sent[i] \in Final
        BY <1>1, <4>1 DEF Responds
      <4>3. Sent = Tail(body) /\ Len(body) = Len(Sent) + 1
        BY <3>4, <4>1, SentFacts, ConcatEmptySeq
      <4> QED
        BY <2>3, <3>1, <3>2, <4>2, <4>3 DEF Stream!End, Stream!Final, Final
    <3> QED
      BY <3>1, <3>3, <3>4
  <2>4. CASE UNCHANGED <<body, upds, client>> /\ at[Handler] # "returned" /\ at'[Handler] # "returned"
    BY <2>4 DEF Sent
  <2> QED
    BY <1>2, <2>1, <2>2, <2>3, <2>4, HandlerFacts
<1>3. ASSUME Write
      PROVE  Stream!Next
  <2>1. /\ at[Handler] = "loop" /\ body # <<>> /\ upds # <<>>
        /\ body' = Append(body, Head(upds)) /\ upds' = Tail(upds) /\ UNCHANGED <<at, client>>
    BY <1>1, <1>3 DEF Write, Responds
  <2>2. Sent' = Sent /\ Len(body) <= Len(Sent) /\ Sent[Len(body)] = Head(upds)
    BY <2>1, SentShift
  <2> QED
    BY <2>1, <2>2 DEF Stream!Write
<1>4. ASSUME Answer
      PROVE  UNCHANGED Stream!vars
  BY <1>4 DEF Answer, ClientGets, Sent
<1>5. ASSUME Leave
      PROVE  Stream!Next
  BY <1>5 DEF Leave, Sent, Stream!Leave
<1>6. ASSUME NEW t \in Thread, CallUpdated(t)
      PROVE  UNCHANGED Stream!vars
  <2>1. at[Handler] = "returned" <=> at'[Handler] = "returned"
    BY <1>1, <1>6, CallFacts DEF Thread
  <2> QED
    BY <1>6, <2>1, CallFacts DEF Sent
<1>7. ASSUME NEW t \in Thread, Updated(t)
      PROVE  [Stream!Next]_(Stream!vars)
  <2>1. /\ UNCHANGED <<body, client>>
        /\ at[Handler] = "returned" <=> at'[Handler] = "returned"
    BY <1>1, <1>7, UpdatedFacts, CallerFacts DEF Thread
  <2>2. CASE at[t] = "send" /\ ~shut /\ upds' = Append(upds, upd[t])
    <3>1. body # <<>> /\ upd[t] \in {"job"} \cup Final
      BY <1>1, <2>2 DEF Responds, StreamTypeOK, Thread
    <3>2. Sent' = Append(Sent, upd[t])
      BY <2>1, <2>2, <3>1, SentPut
    <3>3. at[Handler] = "returned" => client = "gone"
      BY <1>1, <2>2 DEF Responds, OneSender, Thread
    <3> QED
      BY <2>1, <3>1, <3>2, <3>3 DEF Stream!Send, Stream!Kind, Final
  <2>3. CASE UNCHANGED upds
    BY <2>1, <2>3 DEF Sent
  <2> QED
    BY <1>7, <2>2, <2>3, UpdatedFacts
<1> QED
  BY <1>2, <1>3, <1>4, <1>5, <1>6, <1>7 DEF Next, HandlerStep, HeartbeatStep, Thread, vars, Sent

(* The response of POST /build is an error, or BuildStarted and every      *)
(* status update in the order they were handed over, none of them lost,    *)
(* late or cut off by the end of the response (build_handler.go:97-162).   *)
THEOREM ResponseIsAStream == Spec => ImplementsStream
<1>1. Init => Stream!Init
  BY EmptySeq DEF Init, Stream!Init, Sent, Handler, Heartbeat, Thread
<1>2. StreamInv /\ [Next]_vars => [Stream!Next]_(Stream!vars)
  BY StreamRefined
<1> QED
  BY <1>1, <1>2, StreamInvariant, PTL DEF Spec, ImplementsStream, Stream!Spec
=============================================================================
