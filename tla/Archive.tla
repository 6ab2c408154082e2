------------------------------ MODULE Archive ------------------------------
(***************************************************************************)
(* The message archive of one gateway room (XEP-0313).                     *)
(*                                                                         *)
(* MAMHandler keeps the messages of a room it has seen in an array.  The   *)
(* first query creates it and fetches two batches from the homeserver;     *)
(* later ones fetch further back when they need to; every message that is  *)
(* relayed is added at the end.  Queries run concurrently: each has one    *)
(* await per fetch, and one between the indexes of its page and the page.  *)
(*                                                                         *)
(* The events of the room are numbered in their order, and their number is *)
(* their timestamp.  A batch is what the homeserver has when it is asked.  *)
(***************************************************************************)
EXTENDS Integers, Sequences, FiniteSets, SequencesExt, FiniteSetsExt

CONSTANTS
    Queries,      \* query handlers
    Kinds,        \* kinds of query a run allows
    N,            \* bound: events of the room
    Noise,        \* those that are not messages
    MaxQueries,   \* bound: queries in all
    Batch,        \* events a fetch asks for
    PageSize,     \* results of one page
    CacheMax,     \* MAM_CACHE_MAX_LENGTH
    Environment   \* what may go wrong in a run

QueryKinds ==
    {"page",    \* without result set management: the last page
     "latest",  \* <before/>: the last page, fetching what it lacks
     "before",  \* <before>id</before>
     "after",   \* <after>id</after>
     "first",   \* neither: the first page
     "since"}   \* the same with a start date

EnvironmentEvents ==
    {"fail",     \* a fetch fails
     "lost",     \* the event of a message cannot be read back
     "reorder"}  \* a message is added before an earlier one

ASSUME ArchiveAssumption ==
    /\ Kinds \subseteq QueryKinds
    /\ N \in Nat /\ Noise \subseteq 1..N /\ MaxQueries \in Nat
    /\ Batch \in Nat \ {0} /\ PageSize \in Nat \ {0} /\ CacheMax \in Nat
    /\ PageSize <= CacheMax
    /\ Environment \subseteq EnvironmentEvents

VARIABLES
    n,        \* the newest event of the room
    adding,   \* messages that are in the room and not yet added
    created,  \* mamCache has the room
    cache,    \* its array
    token,    \* archivePaginationTokens: the oldest event fetched, 0 for none
    query,    \* what every handler is doing
    asked,    \* how many queries there were
    mishaps   \* history: what has gone wrong

vars == <<n, adding, created, cache, token, query, asked, mishaps>>

Messages == 1..n \ Noise
NoLength == -2

Stage == {"idle", "boot", "reboot", "fetch", "slice"}
Idle == [stage |-> "idle", kind |-> "none", arg |-> 0, batch |-> {}, end |-> 0, paged |-> FALSE,
         prev |-> NoLength, from |-> 0, to |-> 0]

TypeOK ==
    /\ n \in 0..N /\ adding \subseteq Messages
    /\ created \in BOOLEAN /\ cache \in Seq(Messages) /\ token \in 0..N
    /\ query \in [Queries -> [stage : Stage, kind : Kinds \cup {"none"}, arg : 0..N,
                              batch : SUBSET Messages, end : 0..N, paged : BOOLEAN,
                              prev : Nat \cup {-1, NoLength}, from : Nat, to : Int]]
    /\ asked \in 0..MaxQueries
    /\ mishaps \subseteq EnvironmentEvents \cup {"twin", "disorder", "shift", "dry"}

\* Bound: one event of the environment.
MayHappen(e) == e \in Environment /\ mishaps \cap EnvironmentEvents = {}

-----------------------------------------------------------------------------
(* The array                                                               *)

\* findIndex: from 0, and -1 when there is none.
IndexIn(c, e) == IF e \in ToSet(c) THEN Min({i \in 1..Len(c) : c[i] = e}) - 1 ELSE -1

Slice(c, from, to) ==
    SubSeq(c, from + 1, IF to < 0 THEN Len(c) + to ELSE Min({to, Len(c)}))

OutOfOrder(c) == \E i \in 1..Len(c) - 1 : c[i] > c[i + 1]

AtLeast0(i) == IF i >= 0 THEN i ELSE 0

\* The place an element gets: behind the smaller ones and its earlier equals.
Rank(c, i) == Cardinality({j \in 1..Len(c) : c[j] < c[i] \/ (c[j] = c[i] /\ j <= i)})

\* Mutant: the array is left as it came.
Unsorted(c) == c
Sorted(c) == [k \in 1..Len(c) |-> c[CHOOSE i \in 1..Len(c) : Rank(c, i) = k]]

\* What convergeEvRoomCache makes of the array: only a fetch with a token sorts it.
Merged(batch, paged) ==
    LET c == cache \o Sorted(SetToSeq(batch \ ToSet(cache)))
    IN  IF paged THEN Sorted(c) ELSE c

-----------------------------------------------------------------------------
(* The homeserver                                                          *)

Top(t) == IF t = 0 THEN n ELSE t - 1
Fetched(t) == {e \in 1..Top(t) : e > Top(t) - Batch}

EndOf(t) == IF Top(t) > Batch THEN Top(t) - Batch + 1 ELSE 0

\* Mutant: all that the homeserver returns.
Everything(batch) == batch
OnlyMessages(batch) == batch \ Noise

\* The query q, asking for the batch that ends at t.
Asks(q, stage, t) ==
    [q EXCEPT !.stage = stage, !.batch = OnlyMessages(Fetched(t)), !.end = EndOf(t), !.paged = t # 0]

-----------------------------------------------------------------------------
(* getEntries, from its last await on                                      *)

\* The loops.  All but that of "latest" set previous behind the fetch, so that
\* they run once, and not at all behind the fetches for a new archive.
\* Mutant: previous is set behind the fetch here too.
Once(q, c) == Len(c) - 1 < PageSize /\ q.prev = NoLength
Grows(q, c) == Len(c) - 1 < PageSize /\ q.prev # Len(c) - 1

NeedsMore(q, c) ==
    /\ Len(c) <= (IF q.kind = "before" THEN CacheMax + 1 ELSE CacheMax)
    /\ \/ q.kind = "latest" /\ Grows(q, c)
       \/ q.kind = "before" /\ c # <<>> /\ Head(c) = q.arg /\ q.prev # -1
       \/ q.kind = "since" /\ (\A i \in 1..Len(c) : c[i] >= q.arg) /\ q.prev # Len(c)

\* The value previous has during the fetch ("since": will have behind it).
Noted(q, c) ==
    IF q.kind = "latest" THEN Len(c) - 1
    ELSE IF q.kind = "before" THEN -1 ELSE q.prev

\* The indexes of the page, in an array where q.arg is at index i.
EndIndex(q, c, i) ==
    CASE q.kind \in {"page", "latest"} -> Len(c) - 1
      [] q.kind = "before" -> IF q.prev = -1 THEN i ELSE i - 1
      [] q.kind = "after" -> i + 1 + PageSize
      [] OTHER -> N + 1
StartIndex(q, c, i) ==
    CASE q.kind \in {"page", "latest", "before"} -> AtLeast0(EndIndex(q, c, i) - PageSize)
      [] q.kind = "after" -> i + 1
      [] OTHER -> 0

\* Another fetch, or the state of the room for the page.
Proceeds(q, c, t) ==
    IF NeedsMore(q, c)
    THEN Asks([q EXCEPT !.prev = Noted(q, c)], "fetch", t)
    ELSE LET i == IndexIn(c, q.arg)
         IN  [Idle EXCEPT !.stage = "slice", !.kind = q.kind, !.arg = q.arg,
                          !.from = StartIndex(q, c, i), !.to = EndIndex(q, c, i)]

\* Mutant: the room is entered in mamCache with its first messages.
WithMessages == FALSE
BeforeFetch == TRUE

Ask(h, kind, arg) ==
    LET q == [Idle EXCEPT !.kind = kind, !.arg = arg]
    IN  /\ query[h].stage = "idle" /\ asked < MaxQueries
        /\ asked' = asked + 1
        /\ IF created
           THEN query' = [query EXCEPT ![h] = Proceeds(q, cache, token)] /\ UNCHANGED created
           ELSE query' = [query EXCEPT ![h] = Asks(q, "boot", 0)] /\ created' = BeforeFetch
        /\ UNCHANGED <<n, adding, cache, token, mishaps>>

\* What a fetch may do to those who do not expect it.
Mishaps(h, c) ==
    {m \in {"disorder", "shift", "dry"} :
        \/ m = "disorder" /\ ~query[h].paged /\ OutOfOrder(c)
        \/ m = "shift" /\ ~IsPrefix(cache, c) /\ \E k \in Queries \ {h} : query[k].stage = "slice"
        \/ m = "dry" /\ query[h].batch \subseteq ToSet(cache) /\ query[h].end # 0}

\* The loop of a new archive comes to its end behind its first fetch.
Resumes(q, c, t) ==
    CASE q.stage = "boot" -> Asks(q, "reboot", t)
      [] q.stage = "reboot" \/ (q.stage = "fetch" /\ q.kind = "since") -> Proceeds([q EXCEPT !.prev = Len(c)], c, t)
      [] OTHER -> Proceeds(q, c, t)

Converge(h) ==
    LET q == query[h]
        c == Merged(q.batch, q.paged)
    IN  /\ q.stage \in {"boot", "reboot", "fetch"}
        /\ cache' = c /\ created' = TRUE /\ token' = q.end
        /\ query' = [query EXCEPT ![h] = Resumes(q, c, q.end)]
        /\ mishaps' = mishaps \cup Mishaps(h, c)
        /\ UNCHANGED <<n, adding, asked>>

\* A fetch that fails leaves everything as it is, and the query goes on.
FetchFails(h) ==
    LET q == query[h]
    IN  /\ q.stage \in {"boot", "reboot", "fetch"}
        /\ MayHappen("fail")
        /\ created' = TRUE
        /\ query' = [query EXCEPT ![h] = Resumes(q, cache, token)]
        /\ mishaps' = mishaps \cup {"fail"}
        /\ UNCHANGED <<n, adding, cache, token, asked>>

-----------------------------------------------------------------------------
(* The answer                                                              *)

\* An empty archive has no last page, and what has no indexes is not found.
Outcome(q) ==
    CASE q.kind = "page" /\ q.to = -1 -> "internal-server-error"
      [] q.kind = "before" /\ q.to = -1 -> "item-not-found"
      [] OTHER -> "result"

PageOf(q) ==
    LET slice == Slice(cache, q.from, q.to)
        c == IF q.kind = "since" THEN SelectSeq(slice, LAMBDA e : e >= q.arg) ELSE slice
    IN  IF Outcome(q) = "result" THEN SubSeq(c, 1, Min({Len(c), PageSize})) ELSE <<>>

\* handleMAMQuery sends the page and forgets the query.
Answer(h) ==
    /\ query[h].stage = "slice"
    /\ query' = [query EXCEPT ![h] = Idle]
    /\ UNCHANGED <<n, adding, created, cache, token, asked, mishaps>>

-----------------------------------------------------------------------------
(* The room                                                                *)

Post ==
    /\ n < N
    /\ n' = n + 1
    /\ adding' = IF n' \in Noise THEN adding ELSE adding \cup {n'}
    /\ UNCHANGED <<created, cache, token, query, asked, mishaps>>

Overtakes(e) == \E f \in adding : f < e

\* addEntry: nobody looks whether a fetch has brought the message already.
AddEntry(e) ==
    /\ e \in adding
    /\ Overtakes(e) => MayHappen("reorder")
    /\ adding' = adding \ {e}
    /\ cache' = IF created THEN Append(cache, e) ELSE cache
    /\ mishaps' = mishaps \cup {m \in {"reorder", "twin", "disorder"} :
                                    \/ m = "reorder" /\ Overtakes(e)
                                    \/ m = "disorder" /\ OutOfOrder(cache')
                                    \/ m = "twin" /\ created /\ e \in ToSet(cache)}
    /\ UNCHANGED <<n, created, token, query, asked>>

\* The message is in the room but its event could not be read.
LoseEntry(e) ==
    /\ MayHappen("lost")
    /\ e \in adding
    /\ adding' = adding \ {e}
    /\ mishaps' = mishaps \cup {"lost"}
    /\ UNCHANGED <<n, created, cache, token, query, asked>>

-----------------------------------------------------------------------------

Init ==
    /\ n \in 0..N
    /\ adding = {} /\ created = FALSE /\ cache = <<>> /\ token = 0
    /\ query = [h \in Queries |-> Idle]
    /\ asked = 0 /\ mishaps = {}

\* Clients ask for the ids they have seen, and for any date.
Next ==
    \/ \E h \in Queries :
        \/ \E kind \in Kinds \cap {"page", "latest", "first"} : Ask(h, kind, 0)
        \/ \E kind \in Kinds \cap {"before", "after", "since"} : \E e \in Messages : Ask(h, kind, e)
        \/ Converge(h) \/ FetchFails(h) \/ Answer(h)
    \/ Post
    \/ \E e \in 1..N : AddEntry(e) \/ LoseEntry(e)

Spec == Init /\ [][Next]_vars

-----------------------------------------------------------------------------
(* Properties                                                              *)

\* From its oldest message on the archive has every message of the room, but
\* those still on their way: what is relayed while the fetches for a new
\* archive are under way is not missed.  Not so when a message is lost or
\* added behind a later one.
\* (getEntries, convergeEvRoomCache and addEntry together.)
NoHoles ==
    mishaps \cap {"lost", "reorder"} = {} =>
        \A e \in Messages \ adding :
            (\E i \in 1..Len(cache) : cache[i] < e) => \E i \in 1..Len(cache) : cache[i] = e

\* A client that reads forward, each time from the last message it has seen,
\* misses nothing: the page holds every message up to its last, or up to the
\* end of the archive when it is empty.  Not so when the array was out of
\* order or moved under the query.  (getEntries, sliceAndRenderArchiveCache.)
ReadsOn(h) ==
    LET q == query[h]
        page == PageOf(q)
        last == IF page = <<>> THEN Max(ToSet(cache)) ELSE Last(page)
    IN  q.kind = "after" /\ q.arg \in ToSet(cache) =>
            \A e \in ToSet(cache) : e > q.arg /\ e <= last => e \in ToSet(page)
ReaderMissesNothing ==
    [][\A h \in Queries : Answer(h) /\ mishaps \cap {"twin", "disorder", "shift"} = {}
                            => ReadsOn(h)]_vars

\* The last page that a client asks for with <before/> is full, unless the
\* whole room is in the archive, a message was lost, or a fetch failed or brought
\* nothing new.
\* (The loop of getEntries, whatever other queries fetch meanwhile.)
LatestPageIsFull ==
    [][\A h \in Queries :
        Answer(h) /\ query[h].kind = "latest" /\ mishaps \cap {"fail", "dry", "lost"} = {}
            => \/ Len(PageOf(query[h])) = PageSize
               \/ Messages \ adding \subseteq ToSet(cache)]_vars

\* The same, said of the page itself: it ends with the newest message of the
\* archive.
LastPageIsLast ==
    [][\A h \in Queries :
        Answer(h) /\ query[h].kind = "page" /\ cache # <<>>
            => PageOf(query[h]) # <<>> /\ Last(PageOf(query[h])) = Last(cache)]_vars
=============================================================================
