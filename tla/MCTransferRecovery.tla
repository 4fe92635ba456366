-------------------------- MODULE MCTransferRecovery --------------------------
(* Two clients that transfer the universal record 1, under one supplied    *)
(* identity or under those derived from their requests.                    *)
EXTENDS TransferRecovery

CONSTANTS r1, r2, c1, c2, note

MCTexts == {note}

Take1(r, action) ==
  [repository |-> r, action |-> action, id |-> 1, from |-> Universal, to |-> RepositoryAt(r)]

MCTransfers == {Take1(r1, "copy"), Take1(r2, "copy"), Take1(r1, "move")}

\* Bound: others only write record 1 as a universal one and forget, and create
\* and attach domains before the first call, since no transfer here reads any.
FewWrites ==
  /\ \A i \in Live : i \in DOMAIN provenance \/ (i = 1 /\ AtPlacement(1, Universal))
  /\ domains # {} => \A c \in Clients : transfer[c].at = "idle"

Rank(c) ==
  (IF transfer[c].path = "library" THEN 6 ELSE 0)
  + (IF transfer[c].op \in Keys THEN 3 ELSE 0)
  + (IF transfer[c].request.repository = r2 THEN 2
     ELSE IF transfer[c].request.action = "move" THEN 1 ELSE 0)

\* The clients are interchangeable, and so are the repositories of two equal
\* copies and, for different requests, a key of one's own and a derived
\* identity: one of each of these pairs of calls.  What it reads never changes,
\* so it only drops initial states.  SYMMETRY may not be used for a liveness
\* property.
OneOfEach ==
  /\ Rank(c1) <= Rank(c2)
  /\ transfer[c1].request = transfer[c2].request => transfer[c1].request.repository = r1
  /\ transfer[c1].request # transfer[c2].request =>
       transfer[c1].op = transfer[c2].op \/ {transfer[c1].op, transfer[c2].op} \cap Keys = {}
=============================================================================
