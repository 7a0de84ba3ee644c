---------------------------- MODULE BuildStream ----------------------------
(***************************************************************************)
(* What POST /build promises (distbuild/pkg/api/README.md): an error, or   *)
(* BuildStarted and then every status update, in the order they were       *)
(* handed over.  The response of a client that stays is complete: it ends  *)
(* with the final update or after it, and nothing is handed over later.    *)
(***************************************************************************)
EXTENDS Naturals, Sequences

VARIABLES
  body,   \* the response, as far as it is written
  sent,   \* the updates handed over
  over,   \* the response is complete
  gone    \* the client has closed the connection

vars == <<body, sent, over, gone>>

Kind == {"job", "finished", "failed"}
Final == {"finished", "failed"}

Init == body = <<>> /\ sent = <<>> /\ ~over /\ ~gone

Refuse == /\ body = <<>>
          /\ body' = <<"error">>
          /\ over' = TRUE
          /\ UNCHANGED <<sent, gone>>

Start == /\ body = <<>>
         /\ body' = <<"started">>
         /\ UNCHANGED <<sent, over, gone>>

Send == /\ body # <<>>
        /\ over => gone
        /\ \E u \in Kind : sent' = Append(sent, u)
        /\ UNCHANGED <<body, over, gone>>

Write == /\ ~over
         /\ body # <<>>
         /\ Len(body) <= Len(sent)
         /\ body' = Append(body, sent[Len(body)])
         /\ UNCHANGED <<sent, over, gone>>

End == /\ ~over
       /\ \/ gone
          \/ /\ \E i \in DOMAIN sent : sent[i] \in Final
             /\ Len(body) = Len(sent) + 1
       /\ over' = TRUE
       /\ UNCHANGED <<body, sent, gone>>

Leave == /\ ~gone
         /\ gone' = TRUE
         /\ UNCHANGED <<body, sent, over>>

Next == Refuse \/ Start \/ Send \/ Write \/ End \/ Leave

Spec == Init /\ [][Next]_vars
=============================================================================
