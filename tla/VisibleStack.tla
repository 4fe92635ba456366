---------------------------- MODULE VisibleStack ----------------------------
(***************************************************************************)
(* One read of the visible stack (recall or list) while other connections  *)
(* commit.  src/operation/reads.rs opens no transaction, so every SELECT   *)
(* is a step of its own: the attached domains of each target, the topics   *)
(* of every source of a target, then the rows of every source.  Merging,   *)
(* shadowing and the budgets work on what those steps returned.            *)
(*                                                                         *)
(* Abstractions: a text has at most one topic, matches the query or not,   *)
(* and has a width in characters; bm25 may order the rows of one source    *)
(* in any way; created_at follows the rowid.                               *)
(***************************************************************************)
EXTENDS MemoryStore, SequencesExt

CONSTANTS
  Topic,        \* Texts -> topic key of the text
  NoTopic,      \* the empty topic key
  Hits,         \* texts the query and kind of the call match
  Width,        \* Texts -> characters
  Calls,        \* the reads considered
  NoPlacement,  \* a call without an explicit placement
  NoBudget,     \* a call without max_chars
  Stacks,       \* bound: the attachments a read may start from
  MaxCommits    \* bound: other connections' commits during the read

VARIABLES
  call,      \* the request
  phase,     \* resolving, topics, rows, done, failed
  resolved,  \* source lists returned by the SELECTs of attached domains
  target,    \* target being read
  topics,    \* topic keys read for this target, by kind of source
  pending,   \* sources of this target the current phase has still to read
  entries,   \* rows read, in order
  answer,    \* results of the receipt
  past       \* history: the stores that existed since the call began

readVars == <<call, phase, resolved, target, topics, pending, entries, answer>>
stackVars == <<storeVars, readVars, past>>

Store == [memories |-> memories, attached |-> attached]

\* A call is a recall of several targets or a list of one repository, over
\* the stack or one explicit placement; an exact list wants one placement.
CallsOK ==
  \A c \in Calls :
    /\ c.command \in {"recall", "list"}
    /\ c.targets \in Seq(Repositories) /\ c.targets # <<>>
    /\ c.placement \in Placements \cup {NoPlacement}
    /\ c.exact => c.command = "list" /\ c.placement # NoPlacement
    /\ c.limit \in Nat /\ c.offset \in Nat /\ c.chars \in Nat \cup {NoBudget}

ASSUME CallsAssumption == CallsOK
ASSUME TopicAssumption == DOMAIN Topic = Texts /\ Hits \subseteq Texts
ASSUME WidthAssumption == Width \in [Texts -> Nat]
ASSUME DomainsAssumption == IsFiniteSet(Domains)
ASSUME NoPlacementAssumption == NoPlacement \notin Placements
ASSUME StacksAssumption == Stacks \subseteq [Repositories -> SUBSET Domains]
-----------------------------------------------------------------------------
(* The stack of a repository and shadowing.                                *)

\* store::visible_sources: the repository, its domains in order, universal.
VisibleSources(r) ==
  {<<RepositoryAt(r)>> \o [i \in DOMAIN order |-> DomainAt(order[i])] \o <<Universal>> :
     order \in SetToSeqs(attached[r])}

\* operation::sources with validate_placement.
PlacementAllowed(r, p) ==
  CASE p.kind = "repository" -> p.id = r
    [] p.kind = "domain"     -> p.id \in domains /\ p.id \in attached[r]
    [] p.kind = "universal"  -> TRUE

Sources(r, p) ==
  IF p = NoPlacement THEN VisibleSources(r)
  ELSE IF PlacementAllowed(r, p) THEN {<<p>>} ELSE {}

NoTopics == [repository |-> {}, domain |-> {}]

\* query::source_topics.
SourceTopics(p) ==
  {Topic[memories[i].text] : i \in {j \in Live : AtPlacement(j, p)}} \ {NoTopic}

\* Fault: topics of a domain shadow the other domains too.
ShadowedByPeers(p, topic) ==
  CASE p.kind = "repository" -> FALSE
    [] p.kind = "domain"     -> topic \in topics.repository \cup topics.domain
    [] p.kind = "universal"  -> topic \in topics.repository \cup topics.domain

\* shadow::visibility_for.
ShadowedAt(p, topic) ==
  CASE p.kind = "repository" -> FALSE
    [] p.kind = "domain"     -> topic \in topics.repository
    [] p.kind = "universal"  -> topic \in topics.repository \cup topics.domain

-----------------------------------------------------------------------------
(* Merging and budgets.                                                    *)

Key(e) == <<e.placement, e.id>>

\* The visible entries of a record, and where those of each record begin.
Showing(key) == {i \in DOMAIN entries : entries[i].visible /\ Key(entries[i]) = key}

Firsts ==
  {i \in DOMAIN entries : entries[i].visible /\ \A j \in Showing(Key(entries[i])) : i <= j}

\* The n-th number of a set.
Nth(S, n) == CHOOSE i \in S : Cardinality({j \in S : j <= i}) = n

Shown == {i \in DOMAIN entries : entries[i].visible}

VisibleEntries == [n \in 1..Cardinality(Shown) |-> entries[Nth(Shown, n)]]

MergedResult(e) ==
  [id |-> e.id, placement |-> e.placement, text |-> e.text, target |-> e.target,
   source |-> e.source, applies |-> {call.targets[entries[i].target] : i \in Showing(Key(e))}]

\* merge_recalled: the first entry of a record stands for it, the later
\* ones only add the repository they apply to.
Merged == [n \in 1..Cardinality(Firsts) |-> MergedResult(entries[Nth(Firsts, n)])]

WidthOf(s) ==
  LET total[n \in 0..Len(s)] == IF n = 0 THEN 0 ELSE total[n - 1] + Width[s[n].text]
  IN  total[Len(s)]

Limited(s, limit) == SubSeq(s, 1, IF limit < Len(s) THEN limit ELSE Len(s))

\* Fault: the first record does not escape the character budget.
WithoutExemption(s, limit, chars) ==
  LET kept == Limited(s, limit)
      fits == {i \in DOMAIN kept : chars = NoBudget \/ WidthOf(SubSeq(kept, 1, i)) <= chars}
  IN  SubSeq(kept, 1, Cardinality(fits))

\* budget_targeted_memories: take_while over the running total.
Budget(s, limit, chars) ==
  LET kept == Limited(s, limit)
      fits == {i \in DOMAIN kept :
                 chars = NoBudget \/ i = 1 \/ WidthOf(SubSeq(kept, 1, i)) <= chars}
  IN  SubSeq(kept, 1, Cardinality(fits))

\* take_char_budget, the library's cut for the stack of one repository.
TakeCharBudget(s, chars) ==
  LET output[n \in 0..Len(s)] ==
        IF n = 0 THEN [kept |-> 0, total |-> 0, closed |-> FALSE]
        ELSE LET total == output[n - 1].total + Width[s[n].text]
             IN  IF output[n - 1].closed \/ (output[n - 1].kept # 0 /\ total > chars)
                 THEN [output[n - 1] EXCEPT !.closed = TRUE]
                 ELSE [kept |-> n, total |-> total, closed |-> FALSE]
  IN  IF chars = NoBudget THEN s ELSE SubSeq(s, 1, output[Len(s)].kept)

\* What list skips and takes.
Page(s, offset, limit) == Limited(SubSeq(s, offset + 1, Len(s)), limit)

-----------------------------------------------------------------------------
(* The SELECTs of a call.                                                  *)

ReadInit ==
  /\ call \in Calls
  /\ phase = "resolving"
  /\ resolved = <<>>
  /\ target = 1
  /\ topics = NoTopics
  /\ pending = <<>>
  /\ entries = <<>>
  /\ answer = [results |-> <<>>, truncated |-> FALSE]

\* A recall resolves each target once.  A list first resolves the stack to
\* see where its placement applies, then, unless it is exact, the placements
\* it reports and the sources it reads.
Resolutions ==
  IF call.command = "recall" THEN Len(call.targets) ELSE IF call.exact THEN 1 ELSE 3

\* An exact list of a repository placement looks at that repository's stack.
Context ==
  IF call.exact /\ call.placement.kind = "repository"
  THEN call.placement.id ELSE call.targets[1]

NthRepository(n) == IF call.command = "recall" THEN call.targets[n] ELSE Context

NthPlacement(n) ==
  IF call.command = "list" /\ n = 1 THEN NoPlacement ELSE call.placement

\* An exact list of a placement outside the stack reads it by itself.
Searched(lists) ==
  CASE call.command = "recall" -> lists
    [] call.exact -> IF Contains(lists[1], call.placement)
                     THEN lists ELSE <<<<call.placement>>>>
    [] OTHER -> <<lists[3]>>

Applicable ==
  IF call.placement = NoPlacement \/ Contains(resolved[1], call.placement)
  THEN {Context} ELSE {}

\* inventory::exact asks first whether the domain exists.
ListsOutside ==
  call.exact /\ ~Contains(resolved[1], call.placement)

Resolve ==
  /\ phase = "resolving"
  /\ Len(resolved) < Resolutions
  /\ LET n == Len(resolved) + 1 IN
     \E sources \in Sources(NthRepository(n), NthPlacement(n)) :
       LET lists == Append(resolved, sources) IN
       /\ resolved' = lists
       /\ IF n < Resolutions THEN UNCHANGED <<phase, pending>>
          ELSE /\ phase' = "topics"
               /\ pending' = Searched(lists)[1]
  /\ UNCHANGED <<call, target, topics, entries, answer>>

\* validate_placement: no such domain, or not attached; inventory::exact: no
\* such domain (checked here with its first topics: it can only be empty).
Refuse ==
  /\ \/ /\ phase = "resolving"
        /\ Sources(NthRepository(Len(resolved) + 1), NthPlacement(Len(resolved) + 1)) = {}
     \/ /\ phase = "topics" /\ ListsOutside
        /\ ~DomainKnown(call.placement)
  /\ phase' = "failed"
  /\ UNCHANGED <<call, resolved, target, topics, pending, entries, answer>>

\* shadow_topics reads no topics of the universal placement.
ReadTopics ==
  /\ phase = "topics"
  /\ ListsOutside => DomainKnown(call.placement)
  /\ IF pending = <<>> THEN
       /\ phase' = "rows"
       /\ pending' = Searched(resolved)[target]
       /\ UNCHANGED topics
     ELSE
       /\ pending' = Tail(pending)
       /\ topics' = IF Head(pending).kind = "universal" THEN topics
                    ELSE [topics EXCEPT ![Head(pending).kind] = @ \cup SourceTopics(Head(pending))]
       /\ UNCHANGED phase
  /\ UNCHANGED <<call, resolved, target, entries, answer>>

Hit(i) == call.command = "list" \/ memories[i].text \in Hits

\* recalled_memories, in the order of bm25, or listed_memories, newest first.
RowOrders(ids) ==
  {order \in SetToSeqs(ids) :
     call.command = "list" => \A m, n \in DOMAIN order : m < n => order[m] > order[n]}

\* Fault: source orders count from one.
EntryFromOne(i, p, source) ==
  [id |-> i, placement |-> p, text |-> memories[i].text, target |-> target,
   source |-> source + 1, visible |-> ~ShadowedAt(p, Topic[memories[i].text])]

\* The InventoryMemory of a row, with source_order from enumerate().
EntryOf(i, p, source) ==
  [id |-> i, placement |-> p, text |-> memories[i].text, target |-> target,
   source |-> source, visible |-> ~ShadowedAt(p, Topic[memories[i].text])]

\* One source; after the last of a target the topics of the next are read.
ReadRows ==
  /\ phase = "rows"
  /\ pending # <<>>
  /\ LET p == Head(pending)
         sources == Searched(resolved)[target]
         source == Len(sources) - Len(pending)
         ids == {i \in Live : AtPlacement(i, p) /\ Hit(i)}
     IN  \E order \in RowOrders(ids) :
           entries' = entries \o [n \in DOMAIN order |-> EntryOf(order[n], p, source)]
  /\ IF Len(pending) = 1 /\ target < Len(Searched(resolved)) THEN
       /\ phase' = "topics"
       /\ target' = target + 1
       /\ topics' = NoTopics
       /\ pending' = Searched(resolved)[target + 1]
     ELSE
       /\ pending' = Tail(pending)
       /\ UNCHANGED <<phase, target, topics>>
  /\ UNCHANGED <<call, resolved, answer>>

\* Only the placement asked for is left of an exact list of the stack.
Wanted(e) == call.exact => e.placement = call.placement

Listed == SelectSeq(entries, Wanted)

ListedResult(e) ==
  [id |-> e.id, placement |-> e.placement, text |-> e.text, target |-> e.target,
   source |-> e.source, applies |-> Applicable, visible |-> e.visible]

Finish ==
  /\ phase = "rows"
  /\ pending = <<>>
  /\ phase' = "done"
  /\ answer' =
       IF call.command = "recall" THEN
         LET results == Budget(Merged, call.limit, call.chars)
         IN  [results |-> results, truncated |-> Len(results) < Len(Merged)]
       ELSE
         [results |-> [n \in DOMAIN Page(Listed, call.offset, call.limit) |->
                         ListedResult(Page(Listed, call.offset, call.limit)[n])],
          truncated |-> Len(Listed) > call.offset + call.limit]
  /\ UNCHANGED <<call, resolved, target, topics, pending, entries>>

Read == Resolve \/ Refuse \/ ReadTopics \/ ReadRows \/ Finish

\* A transaction of another connection during the call.
Commit ==
  /\ phase \notin {"done", "failed"}
  /\ Cardinality(past) <= MaxCommits
  /\ Next
  /\ past' = past \cup {Store'}
  /\ UNCHANGED readVars

ReadNext == (Read /\ UNCHANGED <<storeVars, past>>) \/ Commit

\* The store a read finds: any records that the schema admits.
Stocked ==
  /\ domains = Domains
  /\ attached \in Stacks
  /\ \E n \in 1..MaxId : memories \in [1..n -> [text : Texts, placement : Placements, organized : {FALSE}]]
  /\ provenance = EmptyTable /\ ledger = EmptyTable /\ identities = EmptyTable

StackInit == Stocked /\ ReadInit /\ past = {Store}

StackSpec == StackInit /\ [][ReadNext]_stackVars
-----------------------------------------------------------------------------
ReadEntry ==
  [id : MemoryIds, placement : Placements, text : Texts, target : 1..Len(call.targets),
   source : 0..(Cardinality(Domains) + 1), visible : BOOLEAN]

(* Every row read has the target and source it was read for, source orders *)
(* counting from zero over the repository, its domains and universal.      *)
StackTypeOK ==
  /\ TypeOK
  /\ phase \in {"resolving", "topics", "rows", "done", "failed"}
  /\ topics \in [{"repository", "domain"} -> SUBSET Range(Topic)]
  /\ pending \in Seq(Placements)
  /\ entries \in Seq(ReadEntry)
  /\ answer.truncated \in BOOLEAN
  /\ \A e \in Range(entries) :
       Searched(resolved)[e.target][e.source + 1] = e.placement

-----------------------------------------------------------------------------
(* What a stack promises, for one store and over the stores of a call.     *)

Stacked(s, r, p) ==
  \/ p \in {RepositoryAt(r), Universal}
  \/ \E d \in s.attached[r] : p = DomainAt(d)

Rank(p) == CASE p.kind = "repository" -> 1 [] p.kind = "domain" -> 2 [] OTHER -> 3
Outranks(p, q) == Rank(p) < Rank(q)

RowOf(s, i, p) == i \in DOMAIN s.memories /\ s.memories[i].placement = p
Says(s, p, topic) == \E i \in DOMAIN s.memories : RowOf(s, i, p) /\ Topic[s.memories[i].text] = topic

WholeStack == call.placement = NoPlacement \/ call.exact
Asked(p) == call.placement \in {NoPlacement, p}

MayBeShadowed(r, p, topic) ==
  /\ topic # NoTopic /\ WholeStack
  /\ call.exact => \E s \in past : Stacked(s, r, p)
  /\ \E q \in Placements :
       /\ Outranks(q, p)
       /\ \E s \in past : Stacked(s, r, q)
       /\ \E s \in past : Says(s, q, topic)

MustBeShadowed(r, p, topic) ==
  /\ topic # NoTopic /\ WholeStack
  /\ call.exact => \A s \in past : Stacked(s, r, p)
  /\ \E q \in Placements :
       Outranks(q, p) /\ \A s \in past : Stacked(s, r, q) /\ Says(s, q, topic)

Lasting(r, i, p, text) ==
  /\ Asked(p)
  /\ \A s \in past : Stacked(s, r, p) /\ RowOf(s, i, p) /\ s.memories[i].text = text

RecallBetween ==
  /\ \A r \in Range(call.targets), i \in MemoryIds, p \in Placements, text \in Hits :
       Lasting(r, i, p, text) /\ ~MayBeShadowed(r, p, Topic[text]) =>
         \E m \in Range(Merged) : Key(m) = <<p, i>> /\ m.text = text /\ r \in m.applies
  /\ \A m \in Range(Merged) : \A r \in m.applies :
       /\ \E s \in past : Stacked(s, r, m.placement)
       /\ \E s \in past :
            /\ RowOf(s, m.id, m.placement)
            /\ s.memories[m.id].text \in Hits
            /\ ~MustBeShadowed(r, m.placement, Topic[s.memories[m.id].text])

ListBetween ==
  /\ \A i \in MemoryIds, p \in Placements, text \in Texts :
       Lasting(Context, i, p, text) =>
         \E e \in Range(entries) : Wanted(e) /\ Key(e) = <<p, i>> /\ e.text = text
  /\ \A e \in {f \in Range(entries) : Wanted(f)} :
       /\ Asked(e.placement)
       /\ \E s \in past : RowOf(s, e.id, e.placement) /\ s.memories[e.id].text = e.text
       /\ call.exact \/ \E s \in past : Stacked(s, Context, e.placement)
       /\ IF e.visible THEN ~MustBeShadowed(Context, e.placement, Topic[e.text])
          ELSE MayBeShadowed(Context, e.placement, Topic[e.text])

(* A recall or list that runs while others write leaves out no record that *)
(* stayed in the stack, matched and unshadowed, and answers nothing that   *)
(* was never there or was shadowed all along.  Without a commit during the *)
(* call this is the exact meaning of shadowing: the stack minus the        *)
(* records whose topic an earlier kind of source has.                      *)
AnswerBetween ==
  phase = "done" => IF call.command = "recall" THEN RecallBetween ELSE ListBetween

Before(e, f) == e.target < f.target \/ (e.target = f.target /\ e.source <= f.source)

Fits(n) == n <= call.limit /\ (n = 1 \/ call.chars = NoBudget \/ WidthOf(SubSeq(Merged, 1, n)) <= call.chars)

(* One global cut after merging all targets: results keep target and       *)
(* source order, are the longest prefix within the limit and the character *)
(* budget (its first record always passes the latter), truncation is       *)
(* reported exactly when something was cut, and for one repository the     *)
(* library's own cut (take_char_budget) keeps the same records.            *)
AnswerCut ==
  phase = "done" /\ call.command = "recall" =>
    LET kept == answer.results IN
    /\ kept = SubSeq(Merged, 1, Len(kept))
    /\ \A i, j \in DOMAIN kept : i < j => Before(kept[i], kept[j])
    /\ \A n \in 1..Len(Merged) : n <= Len(kept) <=> Fits(n)
    /\ answer.truncated <=> Len(kept) # Len(Merged)
    /\ Len(call.targets) = 1 =>
         LET library == TakeCharBudget(Limited(VisibleEntries, call.limit), call.chars)
         IN  [n \in DOMAIN library |-> Key(library[n])] = [n \in DOMAIN kept |-> Key(kept[n])]
=============================================================================
