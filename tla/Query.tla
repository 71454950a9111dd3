------------------------------- MODULE Query -------------------------------
(***************************************************************************)
(* A query of one namespace: filter, sort and page, while other engines    *)
(* write.  A query is one to several statements.  Whether payloads can be  *)
(* looked at inside SQL is asked in one (`AskAllJson`), the candidates are *)
(* listed in another, sorted in memory, and the payloads of the page are   *)
(* loaded window by window: one statement each, whose rows are then looked *)
(* at one by one in memory, while others go on writing.                    *)
(*                                                                         *)
(* A payload is whether its tag is `json`, whether the engine can decode   *)
(* it into its type, and the number its field holds (0: no number there).  *)
(* Paths are numbers in the order of ORDER BY path.                        *)
(***************************************************************************)
EXTENDS Integers, FiniteSets, Sequences

CONSTANTS N,            \* the paths are 1..N
          Mtimes,       \* modification times, numbers
          Payload,      \* a set of payloads [json, opens, score]
          Queries,      \* a set of queries, see Query
          Chunk,        \* ID_LIST_CHUNK
          NoRow, NoLimit, NoQuery,
          MaxChanges    \* bounds the writes of other engines

Path == 1..N
Id == 1..N + MaxChanges
Row == [id : Id, mtime : Mtimes, payload : Payload]

(* What a builder holds: the paths its path filters admit, a threshold of  *)
(* field_gt (0: none), the value of a predicate that SQL cannot evaluate   *)
(* (0: none), whether the field's name is safe in a JSON path, the sort    *)
(* keys, offset and limit; and whether the engine has a key.               *)
QueryType ==
  [paths : SUBSET Path, gt : Nat, eq : Nat, safe : BOOLEAN,
   keys : Seq([by : {"Field", "Mtime", "Path"}, desc : BOOLEAN]),
   offset : Nat, limit : Nat \cup {NoLimit}, keyed : BOOLEAN]

(* Times are integers, and a score that is no number is 0.                 *)
ASSUME QueryAssumption ==
  /\ N \in Nat /\ MaxChanges \in Nat
  /\ Chunk \in Nat \ {0}
  /\ Mtimes \subseteq Int
  /\ Payload \subseteq [json : BOOLEAN, opens : BOOLEAN, score : Nat]
  /\ NoRow \notin Row
  /\ NoLimit \notin Nat
  /\ Queries \subseteq QueryType
  /\ NoQuery \notin QueryType

VARIABLES rows,    \* the committed entries by path
          lastId,
          changes,
          query,   \* the query that runs
          step,    \* where it is
          order,   \* the sorted candidates
          idx,     \* how many of them have been looked at
          windowEnd, \* where the window that is loaded ends
          loaded,  \* its payloads by id
          toSkip,  \* what is left of the offset
          out, skipped,
          touched, \* for the properties: paths written since the query began
          served   \* for the properties: payloads by id since it began

db == <<rows, lastId, changes>>
window == <<windowEnd, loaded>>
page == <<idx, toSkip, out, skipped>>
ghosts == <<touched, served>>
vars == <<db, query, step, order, window, page, ghosts>>

Stored == {p \in Path : rows[p] # NoRow}
Contents == {<<rows[p].id, rows[p].payload>> : p \in Stored}

Running == {"asking", "tier1", "tier2", "tier3", "page", "window"}
Candidates == [id : Id, path : Path, mtime : Mtimes, score : Nat]

TypeOK ==
  /\ rows \in [Path -> Row \cup {NoRow}]
  /\ lastId \in N..N + changes
  /\ changes \in 0..MaxChanges
  /\ query \in Queries \cup {NoQuery} /\ (query = NoQuery <=> step = "idle")
  /\ step \in Running \cup {"idle", "done", "failed"}
  /\ order \in Seq(Candidates) /\ Len(order) <= N
  /\ idx \in 0..Len(order) /\ windowEnd \in 0..Len(order)
  /\ DOMAIN loaded \subseteq Id /\ loaded \in [DOMAIN loaded -> Payload]
  /\ toSkip \in Nat
  /\ out \in Seq([path : Path, id : Id, payload : Payload]) /\ Len(out) <= N
  /\ skipped \in Seq(Candidates) /\ Len(skipped) <= N
  /\ touched \subseteq Path
  /\ served \subseteq Id \X Payload

Init ==
  /\ \E f \in [Path -> [mtime : Mtimes, payload : Payload] \cup {NoRow}] :
       rows = [p \in Path |-> IF f[p] = NoRow THEN NoRow
                 ELSE [id |-> p, mtime |-> f[p].mtime, payload |-> f[p].payload]]
  /\ lastId = N
  /\ changes = 0
  /\ query = NoQuery
  /\ step = "idle"
  /\ order = <<>> /\ windowEnd = 0 /\ loaded = <<>>
  /\ idx = 0 /\ toSkip = 0 /\ out = <<>> /\ skipped = <<>>
  /\ touched = {} /\ served = {}

-----------------------------------------------------------------------------
(* The order of a query.                                                   *)
KeyOf(key, c) == CASE key.by = "Field" -> c.score
                   [] key.by = "Mtime" -> c.mtime
                   [] key.by = "Path"  -> c.path

Ahead(key, a, b) == IF key.desc THEN KeyOf(key, a) > KeyOf(key, b)
                                ELSE KeyOf(key, a) < KeyOf(key, b)

(* The sort is stable and starts from the order of the paths.              *)
Before(q, a, b) ==
  \/ \E i \in DOMAIN q.keys :
       /\ Ahead(q.keys[i], a, b)
       /\ \A j \in 1..i - 1 : KeyOf(q.keys[j], a) = KeyOf(q.keys[j], b)
  \/ /\ \A j \in DOMAIN q.keys : KeyOf(q.keys[j], a) = KeyOf(q.keys[j], b)
     /\ a.path < b.path

Sorted(q, S) == CHOOSE s \in [1..Cardinality(S) -> S] :
                  \A i, j \in DOMAIN s : i < j => Before(q, s[i], s[j])

Candidate(p) == [id |-> rows[p].id, path |-> p, mtime |-> rows[p].mtime,
                 score |-> rows[p].payload.score]

Matches(q, payload) == /\ q.gt # 0 => payload.score > q.gt
                       /\ q.eq # 0 => payload.score = q.eq

-----------------------------------------------------------------------------
(* The plan: no payload is needed before the page (tier 1), SQL can answer *)
(* if every payload is JSON (tier 2), or every payload must be decoded.    *)
ByField(q) == \E i \in DOMAIN q.keys : q.keys[i].by = "Field"

ClassifyQuery(q) ==
  IF q.gt = 0 /\ q.eq = 0 /\ ~ByField(q) THEN "tier1"
  ELSE IF q.eq # 0 \/ ~q.safe \/ q.keyed THEN "tier3"
  ELSE "asking"

Begin(q) ==
  /\ step = "idle"
  /\ query' = q
  /\ step' = ClassifyQuery(q)
  /\ toSkip' = q.offset
  /\ served' = Contents
  /\ UNCHANGED <<db, order, window, idx, out, skipped, touched>>

(* Mutant: one payload is looked for that is JSON, not one that is not.    *)
AskAnyJson ==
  /\ step = "asking"
  /\ step' = IF \E p \in Stored : rows[p].payload.json THEN "tier2" ELSE "tier3"
  /\ UNCHANGED <<db, query, order, window, page, ghosts>>

(* namespace_all_json: of the whole namespace, whatever the path filters.  *)
AskAllJson ==
  /\ step = "asking"
  /\ step' = IF \A p \in Stored : rows[p].payload.json THEN "tier2" ELSE "tier3"
  /\ UNCHANGED <<db, query, order, window, page, ghosts>>

-----------------------------------------------------------------------------
(* Tiers 1 and 2: the candidates without their payloads.                   *)
StartPage(S) ==
  /\ order' = Sorted(query, {Candidate(p) : p \in S})
  /\ step' = "page"
  /\ UNCHANGED <<db, query, window, page, ghosts>>

QueryCandidates ==
  /\ step = "tier1"
  /\ StartPage(Stored \cap query.paths)

(* The pushdown: a payload that is not JSON makes json_type an error.      *)
QueryPushdown ==
  /\ step = "tier2"
  /\ \A p \in Stored \cap query.paths : rows[p].payload.json
  /\ StartPage({p \in Stored \cap query.paths : Matches(query, rows[p].payload)})

PushdownFails ==
  /\ step = "tier2"
  /\ \E p \in Stored \cap query.paths : ~rows[p].payload.json
  /\ step' = "failed"
  /\ UNCHANGED <<db, query, order, window, page, ghosts>>

AtMost(a, b) == IF a < b THEN a ELSE b

Page(q, s) ==
  LET start == AtMost(q.offset, Len(s))
      end   == IF q.limit = NoLimit THEN Len(s) ELSE AtMost(start + q.limit, Len(s))
  IN  SubSeq(s, start + 1, end)

Entry(c, payload) == [path |-> c.path, id |-> c.id, payload |-> payload]

Entries(s) == [i \in DOMAIN s |-> Entry(s[i], rows[s[i].path].payload)]

(* Tier 3: one statement lists the rows with their payloads; what does not *)
(* decode is skipped, the rest is filtered, sorted and paged in memory.    *)
Listed == {Candidate(p) : p \in Stored \cap query.paths}

ByPath(q) == [q EXCEPT !.keys = <<>>]

ExecuteTier3 ==
  LET opens(c) == rows[c.path].payload.opens
      matched  == {c \in Listed : opens(c) /\ Matches(query, rows[c.path].payload)}
  IN  /\ step = "tier3"
      /\ out' = Entries(Page(query, Sorted(query, matched)))
      /\ skipped' = Sorted(ByPath(query), {c \in Listed : ~opens(c)})
      /\ step' = "done"
      /\ UNCHANGED <<db, query, order, window, idx, toSkip, ghosts>>

-----------------------------------------------------------------------------
(* The page of tiers 1 and 2: windows of candidates, as many as the page   *)
(* and the offset still need, a chunk at most.                             *)
Filled(q, entries) == q.limit # NoLimit /\ Len(entries) >= q.limit

Want == IF query.limit = NoLimit THEN Len(order) - idx
                                 ELSE toSkip + query.limit - Len(out)

WindowEnd == AtMost(idx + AtMost(Want, Chunk), Len(order))

(* payloads_for_ids: by the id of the row, whatever it holds by now.       *)
PayloadsFor(ids) ==
  [id \in ids \cap {rows[p].id : p \in Stored} |->
     rows[CHOOSE p \in Stored : rows[p].id = id].payload]

(* Mutant: the window is what is wanted, the ids asked for are a chunk.    *)
LoadOneChunk ==
  /\ step = "page" /\ ~Filled(query, out) /\ idx < Len(order)
  /\ step' = "window"
  /\ windowEnd' = AtMost(idx + Want, Len(order))
  /\ loaded' = PayloadsFor({order[i].id : i \in idx + 1..WindowEnd})
  /\ UNCHANGED <<db, query, order, page, ghosts>>

LoadWindow ==
  /\ step = "page" /\ ~Filled(query, out) /\ idx < Len(order)
  /\ step' = "window"
  /\ windowEnd' = WindowEnd
  /\ loaded' = PayloadsFor({order[i].id : i \in idx + 1..WindowEnd})
  /\ UNCHANGED <<db, query, order, page, ghosts>>

(* One candidate of the window after the other, until the page is full.    *)
Current == order[idx + 1]
Found == Current.id \in DOMAIN loaded
Opens == Found /\ loaded[Current.id].opens

Looking == step = "window" /\ idx < windowEnd /\ ~Filled(query, out)

LookAt(left, entries, unreadable) ==
  /\ idx' = idx + 1
  /\ toSkip' = left
  /\ out' = entries
  /\ skipped' = unreadable
  /\ UNCHANGED <<db, query, step, order, window, ghosts>>

(* Its row is gone: it is passed over in silence.                          *)
PassOver == Looking /\ ~Found /\ LookAt(toSkip, out, skipped)

(* Mutant: an entry that does not decode counts toward the offset, as it   *)
(* did before offset and limit counted decoded entries only.               *)
SkipByPosition ==
  /\ Looking /\ Found /\ ~Opens
  /\ LookAt(IF toSkip > 0 THEN toSkip - 1 ELSE 0, out, Append(skipped, Current))

SkipUnreadable ==
  /\ Looking /\ Found /\ ~Opens
  /\ LookAt(toSkip, out, Append(skipped, Current))

(* What decodes counts toward the offset first.                            *)
CountTowardOffset ==
  /\ Looking /\ Opens /\ toSkip > 0
  /\ LookAt(toSkip - 1, out, skipped)

Deliver ==
  /\ Looking /\ Opens /\ toSkip = 0
  /\ LookAt(0, Append(out, Entry(Current, loaded[Current.id])), skipped)

(* The window ends with its last candidate, or when the page is full (what *)
(* is left of it is then not looked at, and the loop of the windows ends). *)
(* Mutant: the next window starts with the last candidate of this one.     *)
EndWindowOneEarly ==
  /\ step = "window"
  /\ idx = windowEnd \/ Filled(query, out)
  /\ step' = "page"
  /\ windowEnd' = 0 /\ loaded' = <<>>
  /\ idx' = idx - 1
  /\ UNCHANGED <<db, query, order, toSkip, out, skipped, ghosts>>

EndWindow ==
  /\ step = "window"
  /\ idx = windowEnd \/ Filled(query, out)
  /\ step' = "page"
  /\ windowEnd' = 0 /\ loaded' = <<>>
  /\ UNCHANGED <<db, query, order, page, ghosts>>

FinishPage ==
  /\ step = "page"
  /\ Filled(query, out) \/ idx = Len(order)
  /\ step' = "done"
  /\ UNCHANGED <<db, query, order, window, page, ghosts>>

Return ==
  /\ step \in {"done", "failed"}
  /\ step' = "idle"
  /\ order' = <<>> /\ idx' = 0 /\ toSkip' = 0 /\ out' = <<>> /\ skipped' = <<>>
  /\ query' = NoQuery
  /\ touched' = {} /\ served' = {}
  /\ UNCHANGED <<db, window>>

-----------------------------------------------------------------------------
(* The writes of other engines: a set, whose overwrite keeps the row's id, *)
(* and the deletes of a sweep.  Writes between two queries are left out:   *)
(* they lead to tables Init has.                                           *)
Write(newRows, paths, id) ==
  /\ step \in Running
  /\ changes < MaxChanges
  /\ changes' = changes + 1
  /\ rows' = newRows
  /\ lastId' = id
  /\ touched' = touched \cup paths
  /\ served' = served \cup {<<newRows[p].id, newRows[p].payload>> :
                              p \in {x \in paths : newRows[x] # NoRow}}
  /\ UNCHANGED <<query, step, order, window, page>>

Store(p, mtime, payload) ==
  LET id == IF rows[p] = NoRow THEN lastId + 1 ELSE rows[p].id
  IN  Write([rows EXCEPT ![p] = [id |-> id, mtime |-> mtime, payload |-> payload]], {p},
            IF rows[p] = NoRow THEN id ELSE lastId)

DeletePaths(S) ==
  Write([p \in Path |-> IF p \in S THEN NoRow ELSE rows[p]], S, lastId)

Next ==
  \/ \E q \in Queries : Begin(q)
  \/ AskAllJson
  \/ QueryCandidates \/ QueryPushdown \/ PushdownFails
  \/ ExecuteTier3
  \/ LoadWindow
  \/ PassOver \/ SkipUnreadable \/ CountTowardOffset \/ Deliver
  \/ EndWindow \/ FinishPage
  \/ Return
  \/ \E p \in Path, t \in Mtimes, w \in Payload : Store(p, t, w)
  \/ \E S \in (SUBSET Stored) \ {{}} : DeletePaths(S)

Spec == Init /\ [][Next]_vars

-----------------------------------------------------------------------------
Readable == {Candidate(p) : p \in {x \in Stored \cap query.paths :
               rows[x].payload.opens /\ Matches(query, rows[x].payload)}}

LooksAtFields == query.gt # 0 \/ query.eq # 0 \/ ByField(query)

(* If nothing was written meanwhile, whichever tier ran and however the    *)
(* windows fell, the page holds the readable matches in order, offset and  *)
(* limit counting those only.  A query that looks at no field lists what   *)
(* it could not decode up to the end of its page (execute_report,          *)
(* materialize).                                                           *)
PageIsExact ==
  LET reference == Page(query, Sorted(query, Readable))
      bad       == {p \in Stored \cap query.paths : ~rows[p].payload.opens}
  IN  /\ out = Entries(reference)
      /\ ~LooksAtFields =>
           {skipped[i].path : i \in DOMAIN skipped} =
             {p \in bad : \/ ~Filled(query, out)
                          \/ out # <<>> /\ Before(query, Candidate(p), reference[Len(reference)])}

QuietPageIsExact == step = "done" /\ touched = {} => PageIsExact

(* Whatever is written meanwhile, every entry of the page was stored under *)
(* its id at some time during the query, no path is there twice, the order *)
(* is that of the candidates, and the limit holds (payloads_for_ids,       *)
(* materialize).                                                           *)
EntriesAreSound ==
  /\ \A i \in DOMAIN out : /\ <<out[i].id, out[i].payload>> \in served
                           /\ out[i].payload.opens
  /\ \A i, j \in DOMAIN out : i # j => out[i].path # out[j].path
  /\ query.limit # NoLimit => Len(out) <= query.limit
  /\ \A i, j \in DOMAIN out, k, l \in DOMAIN order :
       i < j /\ order[k].path = out[i].path /\ order[l].path = out[j].path => k < l

EntriesWereStored == step = "done" => EntriesAreSound

(* Entries that others store and remove around it do not hide an entry     *)
(* that stays: between two entries of the page none is left out, and a     *)
(* page that is not full leaves out no more than the offset (the windows   *)
(* of materialize over rows that are gone).                                *)
Stays(k) == order[k].path \notin touched /\ rows[order[k].path].payload.opens
Returned(k) == \E i \in DOMAIN out : out[i].path = order[k].path
LeftOut(n) == {k \in 1..n : Stays(k) /\ ~Returned(k)}

RowsThatStayAreServed ==
  step = "done" /\ order # <<>> =>
    /\ \A k \in LeftOut(Len(order)) :
         ~ \E i, j \in DOMAIN order : Returned(i) /\ Returned(j) /\ i < k /\ k < j
    /\ ~Filled(query, out) => Cardinality(LeftOut(Len(order))) <= query.offset

(* SQL fails on a payload it cannot look into only if that was stored      *)
(* after the query began, between the question whether all are JSON and    *)
(* the statement that relies on the answer (namespace_all_json, the        *)
(* pushdown): no query fails for what was there, whatever its paths.       *)
OnlyNewPayloadsFailQueries ==
  step = "failed" => \E p \in touched \cap Stored : ~rows[p].payload.json

-----------------------------------------------------------------------------
(* The inductive invariant.                                                *)
Paging == step \in {"page", "window"}

IdsAreUnique == /\ \A p \in Stored : rows[p].id <= lastId
                /\ \A p, r \in Stored : rows[p].id = rows[r].id => p = r

NothingYet ==
  /\ step \in {"idle", "asking", "tier1", "tier2", "tier3", "failed"} =>
       order = <<>> /\ idx = 0 /\ out = <<>> /\ skipped = <<>>
  /\ step \in {"asking", "tier1", "tier2", "tier3"} => toSkip = query.offset
  /\ step # "window" => windowEnd = 0 /\ loaded = <<>>
  /\ step = "idle" => touched = {}

(* The plan fits the query: tier 1 looks at no field.                      *)
PlanFits ==
  /\ step = "tier1" => query.gt = 0 /\ query.eq = 0
  /\ step \in {"asking", "tier2", "tier3"} => LooksAtFields

ContentsAreServed == step # "idle" => Contents \subseteq served

(* The candidates: sorted, no path twice, and of what nobody wrote since   *)
(* they were listed just the rows the query asks for, as they still are.   *)
OrderIsSorted ==
  \A k, l \in DOMAIN order : k < l =>
    Before(query, order[k], order[l]) /\ order[k].path # order[l].path

OrderStays ==
  \A k \in DOMAIN order : order[k].path \notin touched =>
    order[k].path \in Stored /\ order[k] = Candidate(order[k].path)

OrderIsComplete ==
  Paging => \A p \in Path \ touched :
    (\E k \in DOMAIN order : order[k].path = p) <=>
      (p \in Stored \cap query.paths /\ Matches(query, rows[p].payload))

(* The window holds what was stored, and all of it that stays.             *)
WindowIsLoaded ==
  step = "window" =>
    /\ idx <= windowEnd
    /\ \A id \in DOMAIN loaded : <<id, loaded[id]>> \in served
    /\ \A k \in idx + 1..windowEnd : order[k].path \notin touched =>
         /\ order[k].id \in DOMAIN loaded
         /\ loaded[order[k].id] = rows[order[k].path].payload

(* What has been looked at is in the page, unreadable, counted or gone.    *)
PageSoFar ==
  Paging =>
    /\ toSkip <= query.offset
    /\ toSkip > 0 => out = <<>>
    /\ Len(out) + Len(skipped) <= idx
    /\ \A i \in DOMAIN out : \E k \in 1..idx : order[k].path = out[i].path
    /\ \A k \in LeftOut(idx), j \in 1..idx : Returned(j) => k < j
    /\ Cardinality(LeftOut(idx)) <= query.offset - toSkip

(* The candidates up to the k-th that decode.                              *)
Legible(k) == {j \in 1..k : rows[order[j].path].payload.opens}

QuietPageSoFar ==
  Paging /\ touched = {} =>
    /\ Cardinality(Legible(idx)) = query.offset - toSkip + Len(out)
    /\ \A i \in DOMAIN out : \E k \in Legible(idx) :
         /\ out[i] = Entry(order[k], rows[order[k].path].payload)
         /\ Cardinality(Legible(k)) = query.offset + i
    /\ {skipped[i].path : i \in DOMAIN skipped} =
         {order[k].path : k \in 1..idx \ Legible(idx)}
    /\ Filled(query, out) =>
         IF out = <<>> THEN idx = 0 ELSE order[idx].path = out[Len(out)].path

(* Until the pushdown, all is JSON that was stored when it was asked.      *)
AllJsonWasAsked ==
  /\ step = "tier2" => \A p \in Stored \ touched : rows[p].payload.json
  /\ OnlyNewPayloadsFailQueries

IInv ==
  /\ TypeOK /\ IdsAreUnique /\ NothingYet /\ PlanFits /\ ContentsAreServed
  /\ OrderIsSorted /\ OrderStays /\ OrderIsComplete /\ WindowIsLoaded
  /\ step # "idle" => EntriesAreSound
  /\ PageSoFar /\ RowsThatStayAreServed
  /\ QuietPageSoFar /\ QuietPageIsExact
=============================================================================
