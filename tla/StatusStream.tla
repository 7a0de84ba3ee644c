---------------------------- MODULE StatusStream ---------------------------
(***************************************************************************)
(* The response of POST /build (distbuild/pkg/api/build_handler.go): the   *)
(* status writer that the service hands its updates to, and the goroutine  *)
(* of the handler, which first runs StartBuild and then writes them out.   *)
(* They share a channel and four atomics; every access is a step.          *)
(*                                                                         *)
(* Module Coordinator has the writer as one step with a channel that fills *)
(* up; this module is what allows it to.                                   *)
(*                                                                         *)
(* A service is of one of two kinds.  "background", the coordinator, whose *)
(* StartBuild only calls Started and whose heartbeat handlers send the     *)
(* updates, one at a time and not before StartBuild returns (they hold     *)
(* buildData.mu); "inline", a service as in api/build_test.go, whose       *)
(* StartBuild sends them itself and may fail before, between or after them.*)
(* Nothing reads the channel before StartBuild returns: an inline service  *)
(* that fills it waits for ever, and Init has none (100 updates, in fact). *)
(***************************************************************************)
EXTENDS Naturals, Sequences

CONSTANTS
  Jobs,      \* how many JobFinished updates there may be
  UpdsCap    \* the capacity of upds, 100 in the code

ASSUME StreamAssumption == Jobs \in Nat /\ UpdsCap \in Nat \ {0}

VARIABLES
  service,     \* the kind of service
  upds, shut,  \* the channel: what is in it, whether it is closed
  atomics,     \* startedWriting, buildStarted, buildFinished, closed: those that are true
  at, upd,     \* the step of a goroutine, the update it hands over
  todo,        \* what the service still has to send
  body,        \* what the handler has written
  client       \* BuildClient

vars == <<service, upds, shut, atomics, at, upd, todo, body, client>>

Handler == "handler"       \* the goroutine of the /build request
Heartbeat == "heartbeat"   \* the one that holds buildData.mu, if any does
Thread == {Handler, Heartbeat}

Final == {"finished", "failed"}

Init ==
  /\ service \in {"background", "inline"}
  /\ upds = <<>>
  /\ shut = FALSE
  /\ atomics = {}
  /\ at = [t \in Thread |-> IF t = Handler THEN "start" ELSE "idle"]
  /\ upd = [t \in Thread |-> "job"]
  /\ todo \in {[i \in 1..n + 1 |-> IF i <= n THEN "job" ELSE "finished"] : n \in 0..Jobs}
  /\ service = "inline" => Len(todo) < UpdsCap
  /\ body = <<>>
  /\ client = "asks"

Goes(t, step) == at' = [at EXCEPT ![t] = step]

-----------------------------------------------------------------------------
(* The service.  Started is its first call; it may fail without.           *)
Started ==
  /\ at[Handler] = "start"
  /\ atomics' = atomics \cup {"startedWriting"}
  /\ body' = <<"started">>
  /\ Goes(Handler, "service")
  /\ UNCHANGED <<service, upds, shut, upd, todo, client>>

StartBuildFails ==
  /\ service = "inline"
  /\ at[Handler] \in {"start", "service"}
  /\ Goes(Handler, "error")
  /\ UNCHANGED <<service, upds, shut, atomics, upd, todo, body, client>>

StartBuildReturns ==
  /\ at[Handler] = "service"
  /\ service = "background" \/ todo = <<>>
  /\ Goes(Handler, "begin")
  /\ UNCHANGED <<service, upds, shut, atomics, upd, todo, body, client>>

(* The call of Updated with the next update.                               *)
CallUpdated(t) ==
  /\ todo # <<>>
  /\ IF t = Handler
     THEN service = "inline" /\ at[t] = "service"
     ELSE service = "background" /\ at[t] = "idle" /\ at[Handler] \notin {"start", "service"}
  /\ upd' = [upd EXCEPT ![t] = Head(todo)]
  /\ todo' = Tail(todo)
  /\ Goes(t, "updated")
  /\ UNCHANGED <<service, upds, shut, atomics, body, client>>

-----------------------------------------------------------------------------
(* Where a goroutine goes when Updated, or the handler's own check for the *)
(* end of the build, is through.                                           *)
Caller(t) ==
  IF t = Heartbeat THEN "idle"
  ELSE IF "buildStarted" \in atomics THEN "loop"
  ELSE IF upd[t] = "failed" THEN "begin" ELSE "service"

(* A goroutine reads one of the atomics.                                   *)
Load(t, step, name, ifSet, ifNot) ==
  /\ at[t] = step
  /\ Goes(t, IF name \in atomics THEN ifSet ELSE ifNot)
  /\ UNCHANGED <<service, upds, shut, upd, todo, body, client>>

(* Updated, access by access: closed.Load ...                              *)
LoadClosed(t) == Load(t, "updated", "closed", Caller(t), "send") /\ UNCHANGED atomics

(* Slip: a list in the place of the channel is never full.                 *)
SendOver(t) ==
  /\ at[t] = "send"
  /\ ~shut
  /\ upds' = Append(upds, upd[t])
  /\ Goes(t, IF upd[t] \in Final THEN "store" ELSE "started?")
  /\ UNCHANGED <<service, shut, atomics, upd, todo, body, client>>

(* ... the channel, which may be full ...                                  *)
Send(t) ==
  /\ at[t] = "send"
  /\ ~shut
  /\ Len(upds) < UpdsCap
  /\ upds' = Append(upds, upd[t])
  /\ Goes(t, IF upd[t] \in Final THEN "store" ELSE "started?")
  /\ UNCHANGED <<service, shut, atomics, upd, todo, body, client>>

(* ... buildFinished.Store, buildStarted.Load, buildFinished.Load ...      *)
StoreFinished(t) ==
  /\ at[t] = "store"
  /\ atomics' = atomics \cup {"buildFinished"}
  /\ Goes(t, "started?")
  /\ UNCHANGED <<service, upds, shut, upd, todo, body, client>>

LoadStarted(t) ==
  Load(t, "started?", "buildStarted", "finished?", Caller(t)) /\ UNCHANGED atomics

LoadFinished(t) ==
  Load(t, "finished?", "buildFinished", "swap", Caller(t)) /\ UNCHANGED atomics

(* Slip: a Store, whatever closed was.                                     *)
NoSwap(t) ==
  Load(t, "swap", "closed", "close", "close") /\ atomics' = atomics \cup {"closed"}

(* ... closed.CompareAndSwap, whose winner closes the channel.             *)
SwapClosed(t) ==
  Load(t, "swap", "closed", Caller(t), "close") /\ atomics' = atomics \cup {"closed"}

Close(t) ==
  /\ at[t] = "close"
  /\ ~shut
  /\ shut' = TRUE
  /\ Goes(t, Caller(t))
  /\ UNCHANGED <<service, upds, atomics, upd, todo, body, client>>

Updated(t) ==
  \/ LoadClosed(t) \/ Send(t) \/ StoreFinished(t) \/ LoadStarted(t) \/ LoadFinished(t)
  \/ SwapClosed(t) \/ Close(t)

-----------------------------------------------------------------------------
(* The handler after an error of StartBuild: a 500 if nothing was written, *)
(* one more update otherwise.                                              *)
HandleError ==
  /\ at[Handler] = "error"
  /\ IF "startedWriting" \in atomics
     THEN /\ upd' = [upd EXCEPT ![Handler] = "failed"]
          /\ Goes(Handler, "updated")
          /\ UNCHANGED body
     ELSE /\ body' = <<"error">>
          /\ Goes(Handler, "returned")
          /\ UNCHANGED upd
  /\ atomics' = atomics \cup {"startedWriting"}
  /\ UNCHANGED <<service, upds, shut, todo, client>>

(* Slip: an update that was final already is not looked for.               *)
BeginUnchecked ==
  /\ at[Handler] = "begin"
  /\ atomics' = atomics \cup {"buildStarted"}
  /\ Goes(Handler, "loop")
  /\ UNCHANGED <<service, upds, shut, upd, todo, body, client>>

(* buildStarted.Store, and then the check for the end, as in Updated.      *)
Begin ==
  /\ at[Handler] = "begin"
  /\ atomics' = atomics \cup {"buildStarted"}
  /\ Goes(Handler, "finished?")
  /\ UNCHANGED <<service, upds, shut, upd, todo, body, client>>

(* The loop ...                                                            *)
Write ==
  /\ at[Handler] = "loop"
  /\ upds # <<>>
  /\ body' = Append(body, Head(upds))
  /\ upds' = Tail(upds)
  /\ UNCHANGED <<service, shut, atomics, at, upd, todo, client>>

LoopEnds(when) ==
  /\ at[Handler] = "loop"
  /\ when
  /\ Goes(Handler, "returned")
  /\ UNCHANGED <<service, upds, shut, atomics, upd, todo, body, client>>

(* Slip: the first final update ends the stream.                           *)
EndAtFinal == LoopEnds(body[Len(body)] \in Final)

(* Slip: the stream ends when there is nothing to write.                   *)
EndWhenEmpty == LoopEnds(upds = <<>>)

(* ... and its two ends.                                                   *)
EndOfStream == LoopEnds(shut /\ upds = <<>>)

Cancelled == LoopEnds(client = "gone")

-----------------------------------------------------------------------------
ClientGets(when) ==
  /\ client = "asks"
  /\ when
  /\ client' = IF body[1] = "started" THEN "watches" ELSE "refused"
  /\ UNCHANGED <<service, upds, shut, atomics, at, upd, todo, body>>

(* Slip: nothing is flushed before the response is complete.               *)
AnswerAtEnd == ClientGets(at[Handler] = "returned")

(* BuildClient.StartBuild returns with the first line that is flushed ...  *)
Answer == ClientGets(body # <<>>)

(* ... and its user closes the reader, loses the connection or has had its *)
(* 30 seconds.                                                             *)
Leave ==
  /\ client \in {"asks", "watches"}
  /\ client' = "gone"
  /\ UNCHANGED <<service, upds, shut, atomics, at, upd, todo, body>>

-----------------------------------------------------------------------------
HandlerStep ==
  \/ Started \/ StartBuildFails \/ StartBuildReturns \/ CallUpdated(Handler)
  \/ Updated(Handler) \/ HandleError \/ Begin \/ Write \/ EndOfStream \/ Cancelled

HeartbeatStep == CallUpdated(Heartbeat) \/ Updated(Heartbeat)

Next == HandlerStep \/ HeartbeatStep \/ Answer \/ Leave

Spec == Init /\ [][Next]_vars

(* The runtime runs the goroutines, and the network delivers what is       *)
(* flushed.  A heartbeat that reports a job need not come.                 *)
FairSpec ==
  /\ Spec
  /\ WF_vars(HandlerStep)
  /\ WF_vars(Updated(Heartbeat))
  /\ WF_vars(Answer)

-----------------------------------------------------------------------------
Sent == IF body = <<>> THEN upds ELSE Tail(body) \o upds

(* Types; build_handler.go:29: no more updates wait than the channel holds. *)
StreamTypeOK ==
  /\ upds \in Seq({"job"} \cup Final) /\ Len(upds) <= UpdsCap
  /\ shut \in BOOLEAN
  /\ atomics \subseteq {"startedWriting", "buildStarted", "buildFinished", "closed"}
  /\ at \in [Thread -> {"start", "service", "error", "updated", "send", "store", "started?",
                        "finished?", "swap", "close", "begin", "loop", "idle", "returned"}]
  /\ upd \in [Thread -> {"job"} \cup Final]
  /\ client \in {"asks", "watches", "refused", "gone"}

(* build_handler.go:48,53,144: no goroutine sends on the closed channel or *)
(* closes it again, which panics, whatever the service does and fails at.  *)
NoPanic == \A t \in Thread : at[t] \in {"send", "close"} => ~shut

-----------------------------------------------------------------------------
(* The inductive invariant: what a goroutine relies on where it is.        *)

(* The service sends its updates from one goroutine, the handler's own or  *)
(* a heartbeat's, and the final one is the last.                           *)
OneSender ==
  /\ service = "inline" => at[Heartbeat] = "idle"
  /\ service = "background" =>
       /\ at[Handler] \notin {"error", "updated", "send", "store", "started?"}
       /\ "buildFinished" \in atomics \/ at[Heartbeat] = "store"
            \/ (at[Heartbeat] # "idle" /\ upd[Heartbeat] \in Final) => todo = <<>>
       /\ "buildFinished" \in atomics => at[Heartbeat] \notin {"updated", "send"}
  /\ \A i \in DOMAIN todo : todo[i] \in Final <=> i = Len(todo)
  /\ \A t \in Thread : at[t] = "store" => upd[t] \in Final

(* The end of the build is looked for once the handler is in its loop, or  *)
(* about to be; closed is true once, for who closes the channel.           *)
OneCloser ==
  /\ at[Heartbeat] \in {"finished?", "swap", "close"} => "buildStarted" \in atomics
  /\ at[Handler] \in {"finished?", "swap", "close", "loop"} => "buildStarted" \in atomics
  /\ "buildStarted" \in atomics =>
       at[Handler] \in {"finished?", "swap", "close", "loop", "returned"}
  /\ \A t \in Thread : at[t] \in {"swap", "close"} => "buildFinished" \in atomics
  /\ "closed" \in atomics => {"buildStarted", "buildFinished"} \subseteq atomics
  /\ shut => "closed" \in atomics
  /\ \A t \in Thread : at[t] = "close" => "closed" \in atomics /\ ~shut
  /\ at[Handler] = "close" => at[Heartbeat] # "close"

(* The response starts before anything is sent, and a complete one is that *)
(* of an error, of a client that left, or of a channel that was closed.    *)
Responds ==
  /\ body \in Seq({"started", "error", "job"} \cup Final)
  /\ at[Handler] = "start" => body = <<>>
  /\ body = <<>> <=> "startedWriting" \notin atomics
  /\ body = <<>> => at[Handler] \in {"start", "error"} /\ at[Heartbeat] = "idle"
  /\ body = <<"error">> => service = "inline"
  /\ at[Handler] = "returned" => body = <<"error">> \/ client = "gone" \/ shut
  /\ "buildFinished" \in atomics \/ (\E t \in Thread : at[t] = "store") =>
       \E i \in DOMAIN Sent : Sent[i] \in Final

StreamInv ==
  /\ StreamTypeOK
  /\ service \in {"background", "inline"} /\ todo \in Seq({"job", "finished"})
  /\ OneSender
  /\ OneCloser
  /\ Responds
  /\ NoPanic

-----------------------------------------------------------------------------
(* build_handler.go:97-162 is the stream that api/README.md promises: no   *)
(* update is lost, late, or cut off by the end of the response.            *)
Stream == INSTANCE BuildStream WITH
            sent <- Sent, over <- at[Handler] = "returned", gone <- client = "gone"

ImplementsStream == Stream!Spec

(* build_handler.go:52,142: whoever comes last, Updated with the final     *)
(* update or the handler with buildStarted, closes the channel: a response *)
(* with a final update comes to its end.                                   *)
StreamEnds == (\E i \in DOMAIN Sent : Sent[i] \in Final) ~> (at[Handler] = "returned")

(* build_handler.go:48: a heartbeat handler, which holds buildData.mu, is  *)
(* not held up by a full channel while the client is there.                *)
UpdatedReturns ==
  (at[Heartbeat] = "send") ~> (at[Heartbeat] # "send" \/ client = "gone")

(* build_handler.go:36-37: the client gets BuildStarted when it is written *)
(* (the test at api/build_test.go:134 hangs otherwise), while the build    *)
(* may go on for ever.                                                     *)
ClientAnswered == ("startedWriting" \in atomics) ~> (client # "asks")
=============================================================================
