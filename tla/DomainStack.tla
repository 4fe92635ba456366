----------------------------- MODULE DomainStack -----------------------------
(***************************************************************************)
(* What attaching and detaching domains promises: every repository has a   *)
(* stack of distinct registered domains, one call at a time changes it,    *)
(* and a call does all that was asked, an insertion exactly before the     *)
(* domain it names, or nothing.  DomainAttachments implements it with      *)
(* integer positions.                                                      *)
(***************************************************************************)
EXTENDS Naturals, SequencesExt

CONSTANTS
  Repositories,  \* repository identities
  Domains,       \* domain identities
  NoReference    \* an attachment that names no domain to go before

VARIABLES
  domains,  \* the registered domains
  stack,    \* per repository, its attached domains in recall order
  pending   \* the call that is being served, or None

stackVars == <<domains, stack, pending>>

Asked ==
  [kind : {"attach", "detach"}, repository : Repositories, domain : Domains,
   before : Domains \cup {NoReference}]

None == [kind |-> "none"]

Init ==
  /\ domains = {}
  /\ stack = [r \in Repositories |-> <<>>]
  /\ pending = None

CreateDomain(d) ==
  /\ pending = None
  /\ d \notin domains
  /\ domains' = domains \cup {d}
  /\ UNCHANGED <<stack, pending>>

DeleteDomain(d) ==
  /\ pending = None
  /\ d \in domains
  /\ \A r \in Repositories : d \notin Range(stack[r])
  /\ domains' = domains \ {d}
  /\ UNCHANGED <<stack, pending>>

Begin(c) ==
  /\ pending = None
  /\ pending' = c
  /\ UNCHANGED <<domains, stack>>

Serve(kind, result) ==
  /\ pending.kind = kind
  /\ pending' = None
  /\ stack' = [stack EXCEPT ![pending.repository] = result]
  /\ UNCHANGED domains

AttachLast(old) ==
  /\ pending.before = NoReference
  /\ pending.domain \in domains \ Range(old)
  /\ Serve("attach", Append(old, pending.domain))

AttachBefore(old) ==
  /\ pending.domain \in domains \ Range(old)
  /\ \E i \in DOMAIN old :
       old[i] = pending.before /\ Serve("attach", InsertAt(old, i, pending.domain))

Detach(old) ==
  \E i \in DOMAIN old :
    old[i] = pending.domain /\ Serve("detach", RemoveAt(old, i))

Abandon ==
  /\ pending' = None
  /\ UNCHANGED <<domains, stack>>

Next ==
  \/ \E d \in Domains : CreateDomain(d) \/ DeleteDomain(d)
  \/ \E c \in Asked : Begin(c)
  \/ /\ pending # None
     /\ LET old == stack[pending.repository] IN
        AttachLast(old) \/ AttachBefore(old) \/ Detach(old) \/ Abandon

Spec == Init /\ [][Next]_stackVars
=============================================================================
