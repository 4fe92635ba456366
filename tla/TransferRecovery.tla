--------------------------- MODULE TransferRecovery ---------------------------
(***************************************************************************)
(* Copy and move through a server over a connection that may break.  The   *)
(* server, src/server.rs, takes one request at a time and a transfer is    *)
(* one transaction of MemoryStore; it may take it long after its client    *)
(* stopped waiting.  Two clients are modelled: "receipt", the one of every *)
(* command (remote::receipts), which sends a write once and then only asks *)
(* the operation ledger, and "library", remote::recovery::copy_move, which *)
(* sends it a second time when the ledger has no entry.                    *)
(*                                                                         *)
(* A message that is lost covers a refused connection and a server that    *)
(* dies or answers 500 before it commits; a client that stops waiting      *)
(* covers a timeout, a broken connection and an unreadable answer.         *)
(***************************************************************************)
EXTENDS MemoryStore

CONSTANTS
  Clients,    \* processes with one transfer to make
  Transfers   \* the requests they may have

ASSUME TransfersAssumption == Transfers \subseteq Requests

VARIABLES
  transfer, \* client -> its transfer and what it waits for
  net,      \* messages sent and neither taken by the server nor lost
  replies,  \* answers on their way to a client that waits for them
  commits   \* history: client -> transactions its messages committed

netVars == <<net, replies>>
recoveryVars == <<domains, attached, memories, provenance, ledger, identities,
                  transfer, net, replies, commits>>

Paths == {"receipt", "library"}
Outcomes == {"committed", "failed", "unknown"}
Waits == {"verify", "transfer", "status"}

NewCalls ==
  UNION {[at : {"idle"}, path : Paths, request : {q}, op : Keys \cup {DerivedId(q)},
          attempt : {1}] : q \in Transfers}

(* Messages and answers name the client, what is asked and which attempt.  *)
Messages == [client : Clients, kind : {"transfer", "status"}, attempt : 1..2]
Verdicts == {"committed", "refused", "not_found"}

Waiting(c) == [client |-> c, kind |-> transfer[c].at, attempt |-> transfer[c].attempt]
Answered(m, verdict) == [message |-> m, verdict |-> verdict]

\* No answer has come yet, and perhaps never will.
Unanswered(c) == \A verdict \in Verdicts : Answered(Waiting(c), verdict) \notin replies

-----------------------------------------------------------------------------
RecoveryInit ==
  /\ Init
  /\ transfer \in [Clients -> NewCalls]
  /\ net = {}
  /\ replies = {}
  /\ commits = [c \in Clients |-> 0]

Become(c, stage) == transfer' = [transfer EXCEPT ![c].at = stage]

\* Ask for the capabilities of the server; what comes back decides Verified.
Start(c) ==
  /\ transfer[c].at = "idle"
  /\ Become(c, "verify")
  /\ UNCHANGED <<storeVars, netVars, commits>>

Send(c, stage) ==
  /\ Become(c, stage)
  /\ net' = net \cup {[client |-> c, kind |-> stage, attempt |-> transfer[c].attempt]}
  /\ UNCHANGED replies

Settle(c, outcome) == Become(c, outcome) /\ UNCHANGED netVars

\* receipts::verify_version, before every transfer that is sent; without a
\* fitting answer both clients end with an error.
Verified(c) ==
  /\ transfer[c].at = "verify"
  /\ Send(c, "transfer") \/ Settle(c, "failed")
  /\ UNCHANGED <<storeVars, commits>>

\* Fault: the ledger is asked for the operation identity alone.
StatusOfIdentity(op, q) ==
  IF op \notin DOMAIN ledger THEN "not_found" ELSE "committed"

\* transfers::operations::operation_status, by repository and identity.
OperationStatus(op, q) ==
  IF op \notin DOMAIN ledger \/ ledger[op].request.repository # q.repository
  THEN "not_found"
  ELSE IF ledger[op].request = q THEN "committed" ELSE "refused"

\* Fault: the second attempt forgets the identity it was given.
IdentityOfAttempt(c, attempt) ==
  IF attempt = 1 THEN transfer[c].op ELSE DerivedId(transfer[c].request)

\* The identity belongs to the request, not to the attempt.
OperationOf(c, attempt) == transfer[c].op

\* copy_move_observed on the server: commit, replay, or an error, which is a
\* conflict, an invalid request or a database that is busy at the moment.
ServeTransfer(m) ==
  LET q == transfer[m.client].request
      op == OperationOf(m.client, m.attempt)
      reply(verdict) == replies' =
        IF Waiting(m.client) = m THEN replies \cup {Answered(m, verdict)} ELSE replies
  IN
  /\ m \in net
  /\ m.kind = "transfer"
  /\ net' = net \ {m}
  /\ \/ /\ CopyMove(op, q, NoDescriptor)
        /\ commits' = [commits EXCEPT ![m.client] = @ + 1]
        /\ reply("committed")
     \/ /\ op \in DOMAIN ledger /\ ledger[op].request = q
        /\ reply("committed")
        /\ UNCHANGED <<storeVars, commits>>
     \/ reply("refused") /\ UNCHANGED <<storeVars, commits>>
  /\ UNCHANGED transfer

ServeStatus(m) ==
  LET verdict == OperationStatus(transfer[m.client].op, transfer[m.client].request) IN
  /\ m \in net
  /\ m.kind = "status"
  /\ net' = net \ {m}
  /\ replies' = IF Waiting(m.client) = m THEN replies \cup {Answered(m, verdict)} ELSE replies
  /\ UNCHANGED <<storeVars, transfer, commits>>

LoseMessage(m) ==
  /\ m \in net
  /\ net' = net \ {m}
  /\ UNCHANGED <<storeVars, transfer, replies, commits>>

LoseReply(r) ==
  /\ r \in replies
  /\ replies' = replies \ {r}
  /\ UNCHANGED <<storeVars, transfer, net, commits>>

Take(c, verdict) ==
  /\ Answered(Waiting(c), verdict) \in replies
  /\ replies' = replies \ {Answered(Waiting(c), verdict)}
  /\ UNCHANGED <<storeVars, net, commits>>

\* The answer to the transfer is read.
TransferAnswered(c) ==
  /\ transfer[c].at = "transfer"
  /\ \/ Take(c, "committed") /\ Become(c, "committed")
     \/ Take(c, "refused") /\ Become(c, "failed")

\* Fault: a send that went wrong is reported as a failure.
FailedSend(c) == Settle(c, "failed")

\* Ambiguous: ask the ledger (RequestError::is_ambiguous, receipts::recover,
\* recovery::recover).
AfterAmbiguousSend(c) == Send(c, "status")

\* The wait for the transfer ends without an answer: at the timeout, when the
\* connection is seen to break, or because a proxy answers for the server,
\* which may still hold the message.
TransferUnanswered(c) ==
  /\ transfer[c].at = "transfer"
  /\ Unanswered(c)
  /\ AfterAmbiguousSend(c)
  /\ UNCHANGED <<storeVars, commits>>

\* receipts::send waits three seconds.  post, which sends the transfer of the
\* library and every status query, has no timeout.
TimesOut(c) == transfer[c].path = "receipt" /\ TransferUnanswered(c)

\* Fault: send again for as long as the ledger has no entry.
ResendUntilFound(c) ==
  transfer' = [transfer EXCEPT ![c].at = "verify", ![c].attempt = 2]

\* The library client sends a second time, the command never.
AfterNotFound(c) ==
  IF transfer[c].path = "library" /\ transfer[c].attempt = 1
  THEN transfer' = [transfer EXCEPT ![c].at = "verify", ![c].attempt = 2]
  ELSE Become(c, "unknown")

\* A refusal, or an answer that is no status, is a failure of the library
\* client and leaves the command without an outcome.
StatusAnswered(c) ==
  /\ transfer[c].at = "status"
  /\ \/ Take(c, "committed") /\ Become(c, "committed")
     \/ Take(c, "not_found") /\ AfterNotFound(c)
     \/ /\ \E verdict \in Verdicts : Take(c, verdict)
        /\ Become(c, IF transfer[c].path = "library" THEN "failed" ELSE "unknown")

StatusUnanswered(c) ==
  /\ transfer[c].at = "status"
  /\ Unanswered(c)
  /\ Settle(c, "unknown")
  /\ UNCHANGED <<storeVars, commits>>

\* The connection is seen to break.
Disconnect(c) == TransferUnanswered(c) \/ StatusUnanswered(c)

\* Writes of others; their transfers are those of other clients.
Elsewhere ==
  /\ \/ \E p \in Placements, text \in Texts : Remember(p, text, TRUE, NoDescriptor)
     \/ \E p \in Placements, id \in MemoryIds : ForgetAt(p, id)
     \/ \E d \in Domains : CreateDomain(d) \/ DeleteDomain(d)
     \/ \E r \in Repositories, d \in Domains : AttachDomain(r, d) \/ DetachDomain(r, d)
  /\ UNCHANGED <<transfer, netVars, commits>>

ClientStep(c) ==
  \/ Start(c) \/ Verified(c)
  \/ TransferAnswered(c) \/ TimesOut(c)
  \/ StatusAnswered(c)

Deliver(m) == ServeTransfer(m) \/ ServeStatus(m) \/ LoseMessage(m)

RecoveryNext ==
  \/ \E c \in Clients : ClientStep(c) \/ Disconnect(c)
  \/ \E m \in Messages : Deliver(m)
  \/ \E m \in Messages, verdict \in Verdicts : LoseReply(Answered(m, verdict))
  \/ Elsewhere

\* A client sends, reads what has come and keeps its own timeout.  Neither
\* the server nor the network owes it anything: an answer may never come, and
\* nobody need notice.
Fairness == \A c \in Clients : WF_recoveryVars(ClientStep(c))

RecoverySpec == RecoveryInit /\ [][RecoveryNext]_recoveryVars /\ Fairness
-----------------------------------------------------------------------------
RecoveryTypeOK ==
  /\ TypeOK
  /\ \A c \in Clients :
       /\ transfer[c].at \in {"idle"} \cup Waits \cup Outcomes
       /\ transfer[c].path \in Paths /\ transfer[c].request \in Transfers
       /\ transfer[c].op \in OperationIds /\ transfer[c].attempt \in 1..2
  /\ net \subseteq Messages
  /\ replies \subseteq [message : Messages, verdict : Verdicts]
  /\ commits \in [Clients -> Nat]

(* A client that reports success is right: the ledger holds its operation  *)
(* with exactly its request, whoever committed it and whatever was lost.   *)
CommittedTruthful ==
  \A c \in Clients : transfer[c].at = "committed" =>
    /\ transfer[c].op \in DOMAIN ledger
    /\ ledger[transfer[c].op].request = transfer[c].request

(* Sending twice, late arrivals and other clients with the same operation  *)
(* identity together commit at most once.                                  *)
OneEffect ==
  \A c, d \in Clients :
    /\ commits[c] <= 1
    /\ c # d /\ transfer[c].op = transfer[d].op => commits[c] + commits[d] <= 1

(* What a message of a client committed, however late, is found by the     *)
(* recovery handle of that client from then on.                            *)
HandleFinds ==
  \A c \in Clients :
    commits[c] > 0 => OperationStatus(transfer[c].op, transfer[c].request) = "committed"

(* A command that reports a failed transfer is right, then and later: no   *)
(* message of it can still commit. The library client gives no such        *)
(* promise: an error of its second send says nothing about the first.      *)
ReceiptFailureFinal ==
  \A c \in Clients :
    transfer[c].at = "failed" /\ transfer[c].path = "receipt" => commits[c] = 0

(* A call ends, whatever is lost and however often, unless it waits for    *)
(* ever in post, which has no timeout (src/remote.rs:105), for an answer   *)
(* that does not come: a transfer of the library client or a status query. *)
Unheard(c) ==
  /\ Unanswered(c)
  /\ transfer[c].at = "status" \/ (transfer[c].at = "transfer" /\ transfer[c].path = "library")

OnlySilenceHangs == \A c \in Clients : <>[](transfer[c].at \in Outcomes \/ Unheard(c))
=============================================================================
