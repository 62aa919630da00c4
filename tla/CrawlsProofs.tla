--------------------------- MODULE CrawlsProofs ---------------------------
(***************************************************************************)
(* Proofs about Crawls: that no browser is lost from sight or given to two *)
(* crawls, and that what is committed of a crawl agrees with itself, for   *)
(* any number of crawls, any size of the pool and any number of calls.     *)
(* And about CrawlWalk: that a crawl opens a URL twice only when one turn  *)
(* asked for it twice or an error hid that it was open, and that the links *)
(* it is told of are all that matter, for any site, any number of calls a  *)
(* turn and of turns.                                                      *)
(***************************************************************************)
EXTENDS Crawls, CrawlWalk, FiniteSetTheorems, TLAPS

\* Where a crawl without, and one with, a browser may stand.
Before == {"queued", "waiting"}
HasBrowser == {"opening", "ready", "working"}

\* The queue holds no browser twice and none that a crawl has.
QueueInv ==
    /\ \A m, n \in DOMAIN available : available[m] = available[n] => m = n
    /\ \A c \in Crawls, n \in DOMAIN available : slot[c] # available[n]

\* No two crawls have the same browser.
SlotInv == \A c, d \in Crawls : slot[c] # None /\ slot[c] = slot[d] => c = d

\* Every launched browser is somewhere.
PlaceInv ==
    launched # None =>
        \A i \in 0 .. launched - 1 :
            (\E n \in DOMAIN available : available[n] = i) \/ (\E c \in Crawls : slot[c] = i)

\* A crawl has a browser from the moment it takes it to its release.
StageInv ==
    \A c \in Crawls : /\ stage[c] \in Before => slot[c] = None
                      /\ stage[c] \in HasBrowser => slot[c] # None

\* The invariant of the pool.
PoolInv ==
    /\ launched \in 0 .. PoolSize \cup {None}
    /\ available \in Seq(Browsers)
    /\ stage \in [Crawls -> Stages] /\ slot \in [Crawls -> Browsers \cup {None}]
    /\ QueueInv /\ SlotInv /\ PlaceInv /\ StageInv

\* The pool as the process starts it.
LEMMA PoolInit == CrawlInit => PoolInv
<1> SUFFICES ASSUME CrawlInit
             PROVE  PoolInv
  OBVIOUS
<1>1. PICK k \in 0 .. PoolSize \cup {None} : Start(k)
  BY DEF CrawlInit
<1> DEFINE size == IF k = None THEN 0 ELSE k
<1>2. size \in 0 .. PoolSize /\ launched = k
  BY <1>1, PoolAssumption DEF Start
<1>3. available = [i \in 1 .. size |-> i - 1]
  BY <1>1 DEF Start
<1> HIDE DEF size
<1>4. available \in [1 .. size -> Browsers] /\ DOMAIN available = 1 .. size
  BY <1>2, <1>3, PoolAssumption DEF Browsers
<1>5. available \in Seq(Browsers)
  BY <1>2, <1>4, PoolAssumption
<1>6. \A c \in Crawls : slot[c] = None /\ stage[c] = "queued"
  BY DEF CrawlInit
<1>7. QueueInv
  BY <1>2, <1>3, <1>6, PoolAssumption DEF QueueInv
<1>8. PlaceInv
  <2> SUFFICES ASSUME launched # None, NEW i \in 0 .. launched - 1
               PROVE  \E n \in DOMAIN available : available[n] = i
    BY DEF PlaceInv
  <2>1. size = launched
    BY <1>2 DEF size
  <2>2. i + 1 \in 1 .. size
    BY <1>2, <2>1, PoolAssumption
  <2>3. available[i + 1] = i
    BY <1>3, <2>2
  <2> QED BY <1>4, <2>2, <2>3
<1>9. SlotInv /\ StageInv
  BY <1>6 DEF SlotInv, StageInv, Before, HasBrowser
<1>10. stage \in [Crawls -> Stages] /\ slot \in [Crawls -> Browsers \cup {None}]
  BY DEF CrawlInit, Stages
<1> QED BY <1>1, <1>2, <1>5, <1>7, <1>8, <1>9, <1>10 DEF PoolInv

\* A crawl that takes the first free browser takes it out of the queue.
LEMMA TakeKeeps ==
    ASSUME PoolInv, NEW c \in Crawls, Take(c)
    PROVE  PoolInv'
<1> DEFINE b == available[1]
<1>1. /\ stage[c] = "waiting" /\ stage' = [stage EXCEPT ![c] = "opening"]
      /\ slot' = [slot EXCEPT ![c] = b] /\ available' = Tail(available)
      /\ available # <<>> /\ launched' = launched
  BY DEF Take, Move
<1>2. available \in Seq(Browsers) /\ Len(available) \in Nat \ {0}
      /\ DOMAIN available = 1 .. Len(available) /\ b \in Browsers
  BY <1>1 DEF PoolInv
<1>3. /\ available' \in Seq(Browsers) /\ DOMAIN available' = 1 .. Len(available) - 1
      /\ \A n \in DOMAIN available' : available'[n] = available[n + 1] /\ n + 1 \in DOMAIN available
  BY <1>1, <1>2
<1>4. slot[c] = None /\ slot \in [Crawls -> Browsers \cup {None}]
  BY <1>1 DEF PoolInv, StageInv, Before
<1>5. /\ slot'[c] = b /\ \A d \in Crawls \ {c} : slot'[d] = slot[d]
      /\ slot' \in [Crawls -> Browsers \cup {None}]
  BY <1>1, <1>2, <1>4
<1>6. 1 \in DOMAIN available /\ \A d \in Crawls : slot[d] # b
  BY <1>2 DEF PoolInv, QueueInv
<1> HIDE DEF b
<1>7. QueueInv'
  <2>1. \A m, n \in DOMAIN available' : available'[m] = available'[n] => m = n
    BY <1>2, <1>3 DEF PoolInv, QueueInv
  <2>2. \A n \in DOMAIN available' : available'[n] # b
    BY <1>2, <1>3, <1>6 DEF PoolInv, QueueInv, b
  <2>3. \A d \in Crawls, n \in DOMAIN available' : slot'[d] # available'[n]
    BY <1>3, <1>5, <2>2 DEF PoolInv, QueueInv
  <2> QED BY <2>1, <2>3 DEF QueueInv
<1>8. SlotInv'
  BY <1>5, <1>6 DEF PoolInv, SlotInv
<1>9. PlaceInv'
  <2> SUFFICES ASSUME launched # None, NEW i \in 0 .. launched - 1
               PROVE  \/ \E n \in DOMAIN available' : available'[n] = i
                      \/ \E d \in Crawls : slot'[d] = i
    BY <1>1 DEF PlaceInv
  <2>1. CASE \E d \in Crawls : slot[d] = i
    BY <1>4, <1>5, <2>1, PoolAssumption
  <2>2. CASE \E n \in DOMAIN available : available[n] = i
    <3>1. PICK n \in DOMAIN available : available[n] = i
      BY <2>2
    <3>2. CASE n = 1
      BY <1>5, <3>1, <3>2 DEF b
    <3>3. CASE n # 1
      <4>1. n - 1 \in DOMAIN available' /\ available'[n - 1] = i
        BY <1>2, <1>3, <3>1, <3>3
      <4> QED BY <4>1
    <3> QED BY <3>2, <3>3
  <2> QED BY <2>1, <2>2 DEF PoolInv, PlaceInv
<1>10. StageInv' /\ stage' \in [Crawls -> Stages]
  BY <1>1, <1>2, <1>5, PoolAssumption DEF PoolInv, StageInv, Before, HasBrowser, Stages, Browsers
<1> QED BY <1>1, <1>3, <1>5, <1>7, <1>8, <1>9, <1>10 DEF PoolInv

\* A crawl that releases its browser puts it back, once.
LEMMA ReleaseKeeps ==
    ASSUME PoolInv, NEW c \in Crawls, stage[c] \in HasBrowser, Release(c),
           NEW to \in Stages \ (Before \cup HasBrowser), stage' = [stage EXCEPT ![c] = to],
           launched' = launched
    PROVE  PoolInv'
<1> DEFINE b == slot[c]
<1>1. slot' = [slot EXCEPT ![c] = None] /\ available' = Append(available, b)
  BY DEF Release
<1>2. b \in Browsers /\ b # None
  BY DEF PoolInv, StageInv
<1>3. available \in Seq(Browsers) /\ Len(available) \in Nat
      /\ DOMAIN available = 1 .. Len(available)
  BY DEF PoolInv
<1>4. /\ available' \in Seq(Browsers) /\ DOMAIN available' = 1 .. Len(available) + 1
      /\ available'[Len(available) + 1] = b
      /\ \A n \in DOMAIN available : available'[n] = available[n]
  BY <1>1, <1>2, <1>3
<1>5. /\ slot'[c] = None /\ \A d \in Crawls \ {c} : slot'[d] = slot[d]
      /\ slot' \in [Crawls -> Browsers \cup {None}]
  BY <1>1 DEF PoolInv
<1>6. \A d \in Crawls \ {c} : slot[d] # b
  BY <1>2 DEF PoolInv, SlotInv
<1>7. \A n \in DOMAIN available : available[n] # b
  BY DEF PoolInv, QueueInv
<1>8. \A n \in DOMAIN available' : n \in DOMAIN available \/ n = Len(available) + 1
  BY <1>3, <1>4
<1>9. \A n \in DOMAIN available' : available'[n] \in Browsers /\ available'[n] # None
  BY <1>4, PoolAssumption DEF Browsers
<1> HIDE DEF b
<1>10. QueueInv'
  <2>1. \A m, n \in DOMAIN available' : available'[m] = available'[n] => m = n
    BY <1>4, <1>7, <1>8 DEF PoolInv, QueueInv
  <2>2. \A d \in Crawls \ {c}, n \in DOMAIN available' : slot'[d] # available'[n]
    BY <1>4, <1>5, <1>6, <1>8 DEF PoolInv, QueueInv
  <2> QED BY <1>5, <1>9, <2>1, <2>2 DEF QueueInv
<1>11. SlotInv'
  BY <1>5 DEF PoolInv, SlotInv
<1>12. PlaceInv'
  <2> SUFFICES ASSUME launched # None, NEW i \in 0 .. launched - 1
               PROVE  \/ \E n \in DOMAIN available' : available'[n] = i
                      \/ \E d \in Crawls : slot'[d] = i
    BY DEF PlaceInv
  <2>1. CASE \E n \in DOMAIN available : available[n] = i
    BY <1>3, <1>4, <2>1
  <2>2. CASE \E d \in Crawls : slot[d] = i
    <3>1. PICK d \in Crawls : slot[d] = i
      BY <2>2
    <3>2. CASE d = c
      <4>1. Len(available) + 1 \in DOMAIN available'
        BY <1>3, <1>4
      <4> QED BY <1>4, <3>1, <3>2, <4>1 DEF b
    <3>3. CASE d # c
      BY <1>5, <3>1, <3>3
    <3> QED BY <3>2, <3>3
  <2> QED BY <2>1, <2>2 DEF PoolInv, PlaceInv
<1>13. StageInv' /\ stage' \in [Crawls -> Stages]
  BY <1>5 DEF PoolInv, StageInv, Before, HasBrowser, Stages
<1> QED BY <1>4, <1>5, <1>10, <1>11, <1>12, <1>13 DEF PoolInv

\* A step that moves a crawl on without its browser changing hands.
LEMMA MoveKeeps ==
    ASSUME PoolInv, NEW c \in Crawls, NEW to \in Stages, stage' = [stage EXCEPT ![c] = to],
           to \in Before => stage[c] \in Before, to \in HasBrowser => stage[c] \in HasBrowser,
           UNCHANGED <<launched, available, slot>>
    PROVE  PoolInv'
BY DEF PoolInv, QueueInv, SlotInv, PlaceInv, StageInv

\* Every step keeps the pool.
LEMMA PoolStep == PoolInv /\ [CrawlNext]_crawlVars => PoolInv'
<1> SUFFICES ASSUME PoolInv, [CrawlNext]_crawlVars
             PROVE  PoolInv'
  OBVIOUS
<1> USE DEF Before, HasBrowser, Stages
<1>1. CASE UNCHANGED <<launched, available, stage, slot>>
  BY <1>1 DEF PoolInv, QueueInv, SlotInv, PlaceInv, StageInv
<1>2. ASSUME NEW c \in Crawls, GetPool(c)
      PROVE  PoolInv'
  BY <1>2, MoveKeeps DEF GetPool, Move
<1>3. ASSUME NEW c \in Crawls, Open(c)
      PROVE  PoolInv'
  BY <1>3, MoveKeeps DEF Open, Move
<1>4. ASSUME NEW c \in Crawls, CreateJob(c)
      PROVE  PoolInv'
  BY <1>4, MoveKeeps DEF CreateJob, Move
<1>5. ASSUME NEW c \in Crawls, CreateJobFails(c)
      PROVE  PoolInv'
  BY <1>5, ReleaseKeeps DEF CreateJobFails, Move
<1>6. ASSUME NEW c \in Crawls, SaveStep(c) \/ FlushFails(c)
      PROVE  PoolInv'
  BY <1>1, <1>6 DEF SaveStep, Save, SaveRefused, SaveInserted, Count, CountRefused, SaveAnswers,
                    OtherFlush, FlushFails
<1>7. ASSUME NEW c \in Crawls, EndAgent(c)
      PROVE  PoolInv'
  <2>1. PICK to \in {"followup", "closing", "raised"} : stage' = [stage EXCEPT ![c] = to]
    BY <1>7 DEF EndAgent, Move
  <2>2. stage[c] = "working" /\ Release(c) /\ launched' = launched
    BY <1>7 DEF EndAgent, Works
  <2> QED BY <2>1, <2>2, ReleaseKeeps
<1>8. ASSUME NEW c \in Crawls, EndBroken(c)
      PROVE  PoolInv'
  BY <1>8, ReleaseKeeps DEF EndBroken, Move
<1>9. ASSUME NEW c \in Crawls, FollowUp(c)
      PROVE  PoolInv'
  BY <1>9, MoveKeeps DEF FollowUp, Move
<1>10. ASSUME NEW c \in Crawls, CommitCrawl(c)
       PROVE  PoolInv'
  BY <1>10, MoveKeeps DEF CommitCrawl
<1>11. CASE UNCHANGED crawlVars
  BY <1>1, <1>11 DEF crawlVars
<1> QED
  BY <1>2, <1>3, <1>4, <1>5, <1>6, <1>7, <1>8, <1>9, <1>10, <1>11, TakeKeeps
  DEF CrawlNext, CrawlStep

\* The pool's invariant counts every launched browser once.
LEMMA PlaceCount == PoolInv => BrowserInOnePlace
<1> SUFFICES ASSUME PoolInv, launched # None, NEW i \in 0 .. launched - 1
             PROVE  Copies(i) + Cardinality(Holders(i)) = 1
  BY DEF BrowserInOnePlace
<1>1. i # None
  BY PoolAssumption DEF PoolInv
<1>2. CASE \E n \in DOMAIN available : available[n] = i
  <2>1. PICK n \in DOMAIN available : available[n] = i
    BY <1>2
  <2>2. {m \in DOMAIN available : available[m] = i} = {n}
    BY <2>1 DEF PoolInv, QueueInv
  <2>3. Holders(i) = {}
    BY <2>1 DEF PoolInv, QueueInv, Holders
  <2>4. Copies(i) = 1 /\ Cardinality(Holders(i)) = 0
    BY <2>2, <2>3, FS_Singleton, FS_EmptySet DEF Copies
  <2> QED BY <2>4
<1>3. CASE ~ \E n \in DOMAIN available : available[n] = i
  <2>1. PICK c \in Crawls : slot[c] = i
    BY <1>3 DEF PoolInv, PlaceInv
  <2>2. {m \in DOMAIN available : available[m] = i} = {}
    BY <1>3
  <2>3. Holders(i) = {c}
    BY <1>1, <2>1 DEF PoolInv, SlotInv, Holders
  <2>4. Copies(i) = 0 /\ Cardinality(Holders(i)) = 1
    BY <2>2, <2>3, FS_Singleton, FS_EmptySet DEF Copies
  <2> QED BY <2>4
<1> QED BY <1>2, <1>3

\* Every launched browser is free once or held by one crawl, whatever fails (acquire,
\* release and the finally of CrawlAgent.execute).
THEOREM BrowsersAccounted == CrawlSpec => []BrowserInOnePlace
BY PoolInit, PoolStep, PlaceCount, PTL DEF CrawlSpec

-----------------------------------------------------------------------------
(* The rows of a crawl, and its job.                                       *)

\* One if f is the flush of a call of the kind that inserts, or counts, its row.
During(f, kind, of) == IF f = [kind |-> kind, of |-> of] THEN 1 ELSE 0

\* Every row has its call, every count its row, and every id its count.
Agrees(t, kind, f) ==
    /\ t["rows"] + t["added"] <= t["answered"] + t["erred"] + t["due"] + During(f, kind, "insert") + During(f, kind, "count")
    /\ t["memory"] + t["due"] + During(f, kind, "insert") <= t["rows"]
    /\ t["counted"] <= t["memory"]
    /\ t["answered"] + During(f, kind, "count") <= t["counted"]

AllAgree(c) == \A kind \in RowKinds : Agrees(tally[c][kind], kind, flush[c])

\* A crawl that has written nothing.
Untouched(c) ==
    /\ job[c] = None /\ run[c] = "pending" /\ flush[c] = None
    /\ \A kind \in RowKinds : tally[c][kind] = NoTally

\* The agent has returned, or has raised, and the job is settled.
Settled(c) ==
    /\ Idle(c) /\ AllAgree(c)
    /\ \/ Untouched(c)
       \/ job[c] \in {"completed", "failed"} /\ ((job[c] = "completed") = (run[c] = "completed"))

\* What holds of a crawl whose transaction is intact, by the stage it is in.
IntactInv(c) ==
    /\ stage[c] \in {"queued", "waiting", "opening", "ready"} => Untouched(c)
    /\ stage[c] = "working" => AllAgree(c) /\ run[c] = "running"
    /\ stage[c] \in {"closing", "raised", "followup"} => Settled(c)
    /\ stage[c] = "followup" => job[c] = "completed" /\ run[c] = "completed"

\* What the commit puts in the database.
InSession(c) ==
    [run |-> run[c], job |-> job[c],
     rows |-> [kind \in RowKinds |-> tally[c][kind]["rows"]],
     counted |-> [kind \in RowKinds |-> tally[c][kind]["counted"]]]

\* What holds of any crawl: a generation run follows a completed one only.
FollowInv(c) ==
    /\ stage[c] = "followup" => c \notin broken
    /\ c \in generated =>
         /\ stage[c] \in {"closing", "raised", "ended"}
         /\ run[c] = "completed" /\ tally[c]["requirements"]["answered"] > 0
    /\ committed[c] # None => stage[c] = "ended" /\ committed[c] = InSession(c) /\ Settled(c)

\* The types of what a crawl keeps, in its session and in the database.
KeepsTypes ==
    /\ stage \in [Crawls -> Stages] /\ run \in [Crawls -> RunStatus]
    /\ job \in [Crawls -> JobStatus \cup {None}]
    /\ tally \in [Crawls -> [RowKinds -> Tally]]
    /\ flush \in [Crawls -> Flush \cup {None}]
    /\ saves \in Nat
    /\ broken \subseteq Crawls /\ generated \subseteq Crawls
    /\ committed \in [Crawls -> [run: RunStatus, job: JobStatus \cup {None},
                                  rows: [RowKinds -> Nat], counted: [RowKinds -> Nat]] \cup {None}]

\* The invariant of the rows.
RowInv ==
    /\ KeepsTypes
    /\ \A c \in Crawls : c \notin broken => IntactInv(c)
    /\ \A c \in Crawls : FollowInv(c)

\* Nothing was counted and nothing inserted.
LEMMA NothingAgrees ==
    ASSUME NEW kind \in RowKinds
    PROVE  NoTally \in Tally /\ Agrees(NoTally, kind, None)
<1>1. NoTally \in Tally
  BY DEF NoTally, Tally
<1>2. [kind |-> kind, of |-> "insert"] \in Flush /\ [kind |-> kind, of |-> "count"] \in Flush
  BY DEF Flush
<1>3. During(None, kind, "insert") = 0 /\ During(None, kind, "count") = 0
  BY <1>2, CrawlAssumption DEF During
<1> QED BY <1>1, <1>3 DEF NoTally, Fields, Agrees

\* A crawl that has written nothing is settled.
LEMMA UntouchedIsSettled ==
    ASSUME NEW c \in Crawls, Untouched(c)
    PROVE  Settled(c)
<1>1. AllAgree(c)
  BY NothingAgrees DEF AllAgree, Untouched
<1>2. Idle(c)
  BY DEF Idle, Untouched, NoTally, Fields
<1> QED BY <1>1, <1>2 DEF Settled

\* No crawl has written anything at first.
LEMMA RowInit == CrawlInit => RowInv
<1> SUFFICES ASSUME CrawlInit
             PROVE  RowInv
  OBVIOUS
<1>1. [kind \in RowKinds |-> NoTally] \in [RowKinds -> Tally]
  BY NothingAgrees
<1>2. KeepsTypes
  BY <1>1 DEF CrawlInit, KeepsTypes, Stages, RunStatus
<1>3. \A c \in Crawls : stage[c] = "queued" /\ Untouched(c) /\ c \notin generated /\ committed[c] = None
  BY DEF CrawlInit, Untouched
<1> QED BY <1>2, <1>3 DEF RowInv, IntactInv, FollowInv

\* What is said of a crawl, said of the same values.
LEMMA SameCrawl ==
    ASSUME NEW d \in Crawls, run'[d] = run[d], job'[d] = job[d], tally'[d] = tally[d], flush'[d] = flush[d]
    PROVE  /\ AllAgree(d)' = AllAgree(d) /\ Untouched(d)' = Untouched(d) /\ Settled(d)' = Settled(d)
           /\ InSession(d)' = InSession(d) /\ Idle(d)' = Idle(d)
<1>1. AllAgree(d)' = AllAgree(d) /\ Untouched(d)' = Untouched(d) /\ Idle(d)' = Idle(d)
  BY DEF AllAgree, Untouched, Idle
<1>2. InSession(d)' = InSession(d)
  BY DEF InSession
<1> QED BY <1>1, <1>2 DEF Settled

\* The other crawls are as they were.
LEMMA OthersAsBefore ==
    ASSUME RowInv, NEW c \in Crawls, NEW d \in Crawls, c # d,
           stage'[d] = stage[d], run'[d] = run[d], job'[d] = job[d], tally'[d] = tally[d],
           flush'[d] = flush[d], committed'[d] = committed[d],
           d \in broken' <=> d \in broken, d \in generated' <=> d \in generated
    PROVE  (d \notin broken' => IntactInv(d)') /\ FollowInv(d)'
BY SameCrawl DEF RowInv, IntactInv, FollowInv

\* A step of one crawl keeps the invariant if it keeps that crawl's part of it.
LEMMA OneCrawl ==
    ASSUME RowInv, NEW c \in Crawls, KeepsTypes',
           \A d \in Crawls \ {c} :
               /\ stage'[d] = stage[d] /\ run'[d] = run[d] /\ job'[d] = job[d]
               /\ tally'[d] = tally[d] /\ flush'[d] = flush[d] /\ committed'[d] = committed[d],
           broken' \subseteq broken \cup {c}, broken \subseteq broken',
           generated' \subseteq generated \cup {c}, generated \subseteq generated',
           c \notin broken' => IntactInv(c)', FollowInv(c)'
    PROVE  RowInv'
<1>1. ASSUME NEW d \in Crawls \ {c}
      PROVE  (d \notin broken' => IntactInv(d)') /\ FollowInv(d)'
  BY <1>1, OthersAsBefore
<1> QED BY <1>1 DEF RowInv

\* A crawl that has not been taken up, or has not written, moves on.
LEMMA UntouchedSteps ==
    ASSUME RowInv, NEW c \in Crawls, GetPool(c) \/ Take(c) \/ Open(c)
    PROVE  RowInv'
<1>1. PICK to \in {"raised", "waiting", "opening", "ready"} :
        stage' = [stage EXCEPT ![c] = to]
  BY DEF GetPool, Take, Open, Move
<1>2. /\ UNCHANGED <<run, job, tally, flush, saves, broken, generated, committed>>
      /\ stage[c] \in {"queued", "waiting", "opening"}
  BY DEF GetPool, Take, Open, Move
<1>3. stage'[c] = to /\ \A d \in Crawls \ {c} : stage'[d] = stage[d]
  BY <1>1 DEF RowInv, KeepsTypes
<1>4. KeepsTypes'
  BY <1>1, <1>2 DEF RowInv, KeepsTypes, Stages
<1>5. c \notin broken' => IntactInv(c)'
  BY <1>2, <1>3, SameCrawl, UntouchedIsSettled DEF RowInv, IntactInv
<1>6. FollowInv(c)'
  BY <1>2, <1>3 DEF RowInv, FollowInv
<1> QED BY <1>2, <1>3, <1>4, <1>5, <1>6, OneCrawl

\* The job is inserted, without rows.
LEMMA CreateStep ==
    ASSUME RowInv, NEW c \in Crawls, CreateJob(c)
    PROVE  RowInv'
<1>1. /\ stage[c] = "ready" /\ stage' = [stage EXCEPT ![c] = "working"]
      /\ job' = [job EXCEPT ![c] = "running"] /\ run' = [run EXCEPT ![c] = "running"]
      /\ UNCHANGED <<tally, flush, saves, broken, generated, committed>>
  BY DEF CreateJob, Move
<1>2. KeepsTypes'
  BY <1>1 DEF RowInv, KeepsTypes, Stages, RunStatus, JobStatus
<1>3. /\ stage'[c] = "working" /\ run'[c] = "running"
      /\ \A d \in Crawls \ {c} :
           stage'[d] = stage[d] /\ job'[d] = job[d] /\ run'[d] = run[d]
  BY <1>1 DEF RowInv, KeepsTypes
<1>4. c \notin broken => AllAgree(c)
  BY <1>1, UntouchedIsSettled DEF RowInv, IntactInv, Settled
<1>5. c \notin broken' => IntactInv(c)'
  BY <1>1, <1>3, <1>4 DEF IntactInv, AllAgree
<1>6. FollowInv(c)'
  BY <1>1, <1>3 DEF RowInv, FollowInv
<1> QED BY <1>1, <1>2, <1>3, <1>5, <1>6, OneCrawl

\* A transaction is lost, or a crawl of a lost transaction ends.
LEMMA BrokenSteps ==
    ASSUME RowInv, NEW c \in Crawls, CreateJobFails(c) \/ EndBroken(c) \/ FlushFails(c)
    PROVE  RowInv'
<1>1. /\ stage[c] \in {"ready", "working"} /\ broken' = broken \cup {c}
      /\ UNCHANGED <<run, job, saves, generated, committed>>
      /\ stage' \in {stage, [stage EXCEPT ![c] = "raised"]}
      /\ tally' \in {tally, [tally EXCEPT ![c] = [kind \in RowKinds |-> NoTally]]}
      /\ flush' \in {flush, [flush EXCEPT ![c] = None]}
  BY DEF CreateJobFails, EndBroken, FlushFails, Works, Move, Tallied
<1>2. /\ stage'[c] \in {"ready", "working", "raised"}
      /\ \A d \in Crawls \ {c} : stage'[d] = stage[d] /\ tally'[d] = tally[d] /\ flush'[d] = flush[d]
  BY <1>1 DEF RowInv, KeepsTypes
<1>3. [kind \in RowKinds |-> NoTally] \in [RowKinds -> Tally]
  BY NothingAgrees
<1>4. KeepsTypes'
  <2>1. stage' \in [Crawls -> Stages]
    BY <1>1 DEF RowInv, KeepsTypes, Stages
  <2>2. tally' \in [Crawls -> [RowKinds -> Tally]] /\ flush' \in [Crawls -> Flush \cup {None}]
    BY <1>1, <1>3 DEF RowInv, KeepsTypes
  <2> QED BY <1>1, <2>1, <2>2 DEF RowInv, KeepsTypes
<1>5. FollowInv(c)'
  BY <1>1, <1>2 DEF RowInv, FollowInv
<1> QED BY <1>1, <1>2, <1>4, <1>5, OneCrawl

\* A call adds, inserts or counts: the tally goes on agreeing with the flush under way.
LEMMA TallyStep ==
    ASSUME RowInv, NEW c \in Crawls, Works(c),
           NEW u \in [RowKinds -> Tally], NEW f \in Flush \cup {None},
           Tallied(c, u), flush' = [flush EXCEPT ![c] = f],
           \A k \in RowKinds : Agrees(u[k], k, f), saves' \in Nat,
           UNCHANGED <<stage, run, job, broken, generated, committed>>
    PROVE  RowInv'
<1>1. KeepsTypes'
  BY DEF RowInv, KeepsTypes, Tallied
<1>2. /\ tally'[c] = u /\ flush'[c] = f
      /\ \A d \in Crawls \ {c} : tally'[d] = tally[d] /\ flush'[d] = flush[d]
  BY DEF RowInv, KeepsTypes, Tallied
<1>3. IntactInv(c)'
  BY <1>2 DEF RowInv, Works, IntactInv, AllAgree
<1>4. FollowInv(c)'
  BY DEF RowInv, FollowInv, Works
<1> QED BY <1>1, <1>2, <1>3, <1>4, OneCrawl

\* A flush moves the rows that were added to those inserted.
LEMMA FlushedFacts ==
    ASSUME NEW t \in [RowKinds -> Tally]
    PROVE  /\ Flushed(t) \in [RowKinds -> Tally]
           /\ \A k \in RowKinds :
                Flushed(t)[k] = [t[k] EXCEPT !["rows"] = t[k]["rows"] + t[k]["added"], !["added"] = 0]
<1>1. ASSUME NEW x \in Tally
      PROVE  [x EXCEPT !["rows"] = x["rows"] + x["added"], !["added"] = 0] \in Tally
  BY DEF Tally, Fields
<1> QED BY <1>1 DEF Flushed

\* During is one or none, and one only for the call that flushes.
LEMMA DuringFacts ==
    ASSUME NEW k \in RowKinds, NEW l \in RowKinds
    PROVE  /\ During(None, k, "insert") = 0 /\ During(None, k, "count") = 0
           /\ During(Other, k, "insert") = 0 /\ During(Other, k, "count") = 0
           /\ During([kind |-> l, of |-> "insert"], k, "insert") = (IF k = l THEN 1 ELSE 0)
           /\ During([kind |-> l, of |-> "count"], k, "count") = (IF k = l THEN 1 ELSE 0)
           /\ During([kind |-> l, of |-> "insert"], k, "count") = 0
           /\ During([kind |-> l, of |-> "count"], k, "insert") = 0
<1>1. [kind |-> k, of |-> "insert"] \in Flush /\ [kind |-> k, of |-> "count"] \in Flush
  BY DEF Flush
<1>2. During(None, k, "insert") = 0 /\ During(None, k, "count") = 0
  BY <1>1, CrawlAssumption DEF During
<1> QED BY <1>2 DEF During, Other

\* A flush leaves a tally that agrees in agreement.
LEMMA FlushedAgrees ==
    ASSUME NEW t \in Tally, NEW k \in RowKinds, NEW f, Agrees(t, k, f)
    PROVE  Agrees([t EXCEPT !["rows"] = t["rows"] + t["added"], !["added"] = 0], k, f)
<1>1. During(f, k, "insert") \in {0, 1} /\ During(f, k, "count") \in {0, 1}
  BY DEF During
<1> QED BY <1>1 DEF Agrees, Tally, Fields

\* The steps of the calls that save a row, and the other flushes.
LEMMA SaveSteps ==
    ASSUME RowInv, NEW c \in Crawls, SaveStep(c)
    PROVE  RowInv'
<1> DEFINE t == tally[c]
<1>1. Works(c) /\ UNCHANGED <<stage, run, job, broken, generated, committed>> /\ saves' \in Nat
  <2>1. saves \in Nat
    BY DEF RowInv, KeepsTypes
  <2>2. Works(c) /\ UNCHANGED <<stage, run, job, broken, generated, committed>>
    BY DEF SaveStep, Save, SaveRefused, SaveInserted, Count, CountRefused, SaveAnswers, OtherFlush
  <2>3. saves' \in {saves, saves + 1}
    BY DEF SaveStep, Save, SaveRefused, SaveInserted, Count, CountRefused, SaveAnswers, OtherFlush
  <2> QED BY <2>1, <2>2, <2>3
<1>2. /\ t \in [RowKinds -> Tally] /\ \A k \in RowKinds : Agrees(t[k], k, flush[c])
      /\ flush \in [Crawls -> Flush \cup {None}]
  BY <1>1 DEF Works, RowInv, KeepsTypes, IntactInv, AllAgree
<1>3. flush = [flush EXCEPT ![c] = flush[c]] /\ flush[c] \in Flush \cup {None}
  BY <1>2
<1> HIDE DEF t
<1>4. ASSUME NEW kind \in RowKinds, Save(c, kind)
      PROVE  RowInv'
  <2> DEFINE s == [t EXCEPT ![kind]["added"] = t[kind]["added"] + 1]
             f == [kind |-> kind, of |-> "insert"]
  <2>1. flush[c] = None /\ Tallied(c, Flushed(s)) /\ flush' = [flush EXCEPT ![c] = f]
    BY <1>4 DEF Save, Added, t
  <2>2. s \in [RowKinds -> Tally]
        /\ \A k \in RowKinds : s[k] = IF k = kind THEN [t[k] EXCEPT !["added"] = t[k]["added"] + 1] ELSE t[k]
    BY <1>2 DEF Tally, Fields
  <2> HIDE DEF s
  <2>3. f \in Flush
    BY DEF Flush
  <2>4. ASSUME NEW k \in RowKinds
        PROVE  Agrees(Flushed(s)[k], k, f)
    <3>1. During(f, k, "insert") = (IF k = kind THEN 1 ELSE 0) /\ During(f, k, "count") = 0
      BY DuringFacts
    <3>2. During(None, k, "insert") = 0 /\ During(None, k, "count") = 0
      BY DuringFacts
    <3> HIDE DEF f
    <3>3. Agrees(t[k], k, None) /\ t[k] \in Tally
      BY <1>2, <2>1
    <3>4. Flushed(s)[k] = [s[k] EXCEPT !["rows"] = s[k]["rows"] + s[k]["added"], !["added"] = 0]
      BY <2>2, FlushedFacts
    <3> QED BY <2>2, <3>1, <3>2, <3>3, <3>4 DEF Agrees, Tally, Fields
  <2> QED BY <1>1, <2>1, <2>2, <2>3, <2>4, FlushedFacts, TallyStep
<1>5. ASSUME NEW kind \in RowKinds, SaveRefused(c, kind)
      PROVE  RowInv'
  <2>1. PICK n \in {0, 1} :
          Tallied(c, [t EXCEPT ![kind]["added"] = t[kind]["added"] + n, ![kind]["erred"] = t[kind]["erred"] + 1])
    <3>1. CASE Tallied(c, Erred(t, kind))
      <4>1. Erred(t, kind) = [t EXCEPT ![kind]["added"] = t[kind]["added"] + 0, ![kind]["erred"] = t[kind]["erred"] + 1]
        BY <1>2 DEF Erred, Tally, Fields
      <4> QED BY <3>1, <4>1
    <3>2. CASE Tallied(c, Erred(Added(t, kind), kind))
      <4>1. Erred(Added(t, kind), kind) =
              [t EXCEPT ![kind]["added"] = t[kind]["added"] + 1, ![kind]["erred"] = t[kind]["erred"] + 1]
        BY <1>2 DEF Erred, Added, Tally, Fields
      <4> QED BY <3>2, <4>1
    <3> QED BY <1>5, <3>1, <3>2 DEF SaveRefused, t
  <2> DEFINE s == [t EXCEPT ![kind]["added"] = t[kind]["added"] + n, ![kind]["erred"] = t[kind]["erred"] + 1]
  <2>2. s \in [RowKinds -> Tally]
        /\ \A k \in RowKinds : s[k] = IF k = kind THEN [t[k] EXCEPT !["added"] = t[k]["added"] + n,
                                                                   !["erred"] = t[k]["erred"] + 1] ELSE t[k]
    <3> DEFINE r == [t[kind] EXCEPT !["added"] = t[kind]["added"] + n, !["erred"] = t[kind]["erred"] + 1]
    <3>1. t[kind] \in Tally /\ r \in Tally
      BY <1>2 DEF Tally, Fields
    <3>2. s = [t EXCEPT ![kind] = r]
      BY <1>2
    <3> HIDE DEF r
    <3>3. s \in [RowKinds -> Tally] /\ \A k \in RowKinds : s[k] = IF k = kind THEN r ELSE t[k]
      BY <1>2, <3>1, <3>2
    <3> QED BY <3>3 DEF r
  <2> HIDE DEF s
  <2>3. ASSUME NEW k \in RowKinds
        PROVE  Agrees(s[k], k, flush[c])
    <3>1. During(flush[c], k, "insert") \in {0, 1} /\ During(flush[c], k, "count") \in {0, 1}
      BY DEF During
    <3>2. Agrees(t[k], k, flush[c]) /\ t[k] \in Tally
      BY <1>2
    <3> QED BY <2>2, <3>1, <3>2 DEF Agrees, Tally, Fields
  <2>4. flush' = [flush EXCEPT ![c] = flush[c]] /\ Tallied(c, s)
    BY <1>3, <1>5, <2>1 DEF SaveRefused, s
  <2> QED BY <1>1, <1>3, <2>2, <2>3, <2>4, TallyStep
<1>6. ASSUME NEW kind \in RowKinds, SaveInserted(c, kind)
      PROVE  RowInv'
  <2> DEFINE s == [t EXCEPT ![kind]["due"] = t[kind]["due"] + 1]
             f == [kind |-> kind, of |-> "insert"]
  <2>1. flush[c] = f /\ Tallied(c, s) /\ flush' = [flush EXCEPT ![c] = None]
    BY <1>6 DEF SaveInserted, t
  <2>2. s \in [RowKinds -> Tally]
        /\ \A k \in RowKinds : s[k] = IF k = kind THEN [t[k] EXCEPT !["due"] = t[k]["due"] + 1] ELSE t[k]
    BY <1>2 DEF Tally, Fields
  <2> HIDE DEF s
  <2>3. ASSUME NEW k \in RowKinds
        PROVE  Agrees(s[k], k, None)
    <3>1. During(f, k, "insert") = (IF k = kind THEN 1 ELSE 0) /\ During(f, k, "count") = 0
      BY DuringFacts
    <3>2. During(None, k, "insert") = 0 /\ During(None, k, "count") = 0
      BY DuringFacts
    <3>3. Agrees(t[k], k, f) /\ t[k] \in Tally
      BY <1>2, <2>1
    <3> HIDE DEF f
    <3> QED BY <2>2, <3>1, <3>2, <3>3 DEF Agrees, Tally, Fields
  <2> QED BY <1>1, <2>1, <2>2, <2>3, TallyStep
<1>7. ASSUME NEW kind \in RowKinds, Count(c, kind)
      PROVE  RowInv'
  <2>1. PICK n \in Counts(t[kind]) :
          Tallied(c, Flushed([t EXCEPT ![kind]["due"] = t[kind]["due"] - 1, ![kind]["memory"] = n + 1,
                                       ![kind]["counted"] = n + 1]))
    BY <1>2, <1>7, Zenon DEF Count, t
  <2> DEFINE s == [t EXCEPT ![kind]["due"] = t[kind]["due"] - 1, ![kind]["memory"] = n + 1,
                            ![kind]["counted"] = n + 1]
             f == [kind |-> kind, of |-> "count"]
  <2>2. flush[c] = None /\ t[kind]["due"] > 0 /\ flush' = [flush EXCEPT ![c] = f] /\ f \in Flush
    BY <1>7 DEF Count, t, Flush
  <2>3. n \in Nat /\ n \in {t[kind]["memory"], t[kind]["counted"]}
    BY <1>2 DEF Counts, Tally, Fields
  <2>4. s \in [RowKinds -> Tally]
        /\ \A k \in RowKinds : s[k] = IF k = kind
                                      THEN [t[k] EXCEPT !["due"] = t[k]["due"] - 1, !["memory"] = n + 1,
                                                        !["counted"] = n + 1]
                                      ELSE t[k]
    <3> DEFINE r == [t[kind] EXCEPT !["due"] = t[kind]["due"] - 1, !["memory"] = n + 1, !["counted"] = n + 1]
    <3>1. t[kind] \in Tally /\ r \in Tally
      BY <1>2, <2>2, <2>3 DEF Tally, Fields
    <3>2. s = [t EXCEPT ![kind] = r]
      BY <1>2
    <3> HIDE DEF r
    <3>3. s \in [RowKinds -> Tally] /\ \A k \in RowKinds : s[k] = IF k = kind THEN r ELSE t[k]
      BY <1>2, <3>1, <3>2
    <3> QED BY <3>3 DEF r
  <2> HIDE DEF s
  <2>5. ASSUME NEW k \in RowKinds
        PROVE  Agrees(Flushed(s)[k], k, f)
    <3>1. During(f, k, "count") = (IF k = kind THEN 1 ELSE 0) /\ During(f, k, "insert") = 0
      BY DuringFacts
    <3>2. During(None, k, "insert") = 0 /\ During(None, k, "count") = 0
      BY DuringFacts
    <3> HIDE DEF f
    <3>3. Agrees(t[k], k, None) /\ t[k] \in Tally
      BY <1>2, <2>2
    <3>4. Flushed(s)[k] = [s[k] EXCEPT !["rows"] = s[k]["rows"] + s[k]["added"], !["added"] = 0]
      BY <2>4, FlushedFacts
    <3>5. CASE k = kind
      <4>1. s[k] = [t[k] EXCEPT !["due"] = t[k]["due"] - 1, !["memory"] = n + 1, !["counted"] = n + 1]
        BY <2>4, <3>5
      <4> QED BY <2>2, <2>3, <3>1, <3>2, <3>3, <3>4, <3>5, <4>1 DEF Agrees, Tally, Fields
    <3>6. CASE k # kind
      BY <2>4, <3>1, <3>2, <3>3, <3>4, <3>6 DEF Agrees, Tally, Fields
    <3> QED BY <3>5, <3>6
  <2>6. Tallied(c, Flushed(s)) /\ Flushed(s) \in [RowKinds -> Tally]
    BY <2>1, <2>4, FlushedFacts DEF s
  <2> QED BY <1>1, <2>2, <2>5, <2>6, TallyStep
<1>8. ASSUME NEW kind \in RowKinds, CountRefused(c, kind)
      PROVE  RowInv'
  <2>1. PICK m \in Counts(t[kind]) \cup {t[kind]["memory"] - 1} :
          Tallied(c, [t EXCEPT ![kind]["due"] = t[kind]["due"] - 1, ![kind]["memory"] = m + 1,
                               ![kind]["erred"] = t[kind]["erred"] + 1])
    <3>1. CASE Tallied(c, Erred([t EXCEPT ![kind]["due"] = t[kind]["due"] - 1], kind))
      <4>1. Erred([t EXCEPT ![kind]["due"] = t[kind]["due"] - 1], kind) =
              [t EXCEPT ![kind]["due"] = t[kind]["due"] - 1, ![kind]["memory"] = (t[kind]["memory"] - 1) + 1,
                        ![kind]["erred"] = t[kind]["erred"] + 1]
        BY <1>2 DEF Erred, Tally, Fields
      <4> QED BY <3>1, <4>1
    <3>2. ASSUME NEW m \in Counts(t[kind]),
                 Tallied(c, Erred([t EXCEPT ![kind]["due"] = t[kind]["due"] - 1, ![kind]["memory"] = m + 1], kind))
          PROVE  Tallied(c, [t EXCEPT ![kind]["due"] = t[kind]["due"] - 1, ![kind]["memory"] = m + 1,
                                      ![kind]["erred"] = t[kind]["erred"] + 1])
      <4>1. Erred([t EXCEPT ![kind]["due"] = t[kind]["due"] - 1, ![kind]["memory"] = m + 1], kind) =
              [t EXCEPT ![kind]["due"] = t[kind]["due"] - 1, ![kind]["memory"] = m + 1,
                        ![kind]["erred"] = t[kind]["erred"] + 1]
        BY <1>2 DEF Erred, Tally, Fields
      <4> QED BY <3>2, <4>1
    <3> QED BY <1>8, <3>1, <3>2, Zenon DEF CountRefused, t
  <2> DEFINE s == [t EXCEPT ![kind]["due"] = t[kind]["due"] - 1, ![kind]["memory"] = m + 1,
                            ![kind]["erred"] = t[kind]["erred"] + 1]
  <2>2. t[kind]["due"] > 0 /\ flush' = [flush EXCEPT ![c] = flush[c]]
    BY <1>3, <1>8 DEF CountRefused, t
  <2>3. m + 1 \in Nat /\ m \in Int /\ m \in {t[kind]["memory"], t[kind]["counted"], t[kind]["memory"] - 1}
    BY <1>2 DEF Counts, Tally, Fields
  <2>4. s \in [RowKinds -> Tally]
        /\ \A k \in RowKinds : s[k] = IF k = kind
                                      THEN [t[k] EXCEPT !["due"] = t[k]["due"] - 1, !["memory"] = m + 1,
                                                        !["erred"] = t[k]["erred"] + 1]
                                      ELSE t[k]
    <3> DEFINE r == [t[kind] EXCEPT !["due"] = t[kind]["due"] - 1, !["memory"] = m + 1,
                                    !["erred"] = t[kind]["erred"] + 1]
    <3>1. t[kind] \in Tally /\ r \in Tally
      BY <1>2, <2>2, <2>3 DEF Tally, Fields
    <3>2. s = [t EXCEPT ![kind] = r]
      BY <1>2
    <3> HIDE DEF r
    <3>3. s \in [RowKinds -> Tally] /\ \A k \in RowKinds : s[k] = IF k = kind THEN r ELSE t[k]
      BY <1>2, <3>1, <3>2
    <3> QED BY <3>3 DEF r
  <2> HIDE DEF s
  <2>5. ASSUME NEW k \in RowKinds
        PROVE  Agrees(s[k], k, flush[c])
    <3>1. During(flush[c], k, "insert") \in {0, 1} /\ During(flush[c], k, "count") \in {0, 1}
      BY DEF During
    <3>2. Agrees(t[k], k, flush[c]) /\ t[k] \in Tally
      BY <1>2
    <3>3. CASE k = kind
      <4>1. s[k] = [t[k] EXCEPT !["due"] = t[k]["due"] - 1, !["memory"] = m + 1, !["erred"] = t[k]["erred"] + 1]
        BY <2>4, <3>3
      <4> QED BY <2>2, <2>3, <3>1, <3>2, <3>3, <4>1 DEF Agrees, Tally, Fields
    <3>4. CASE k # kind
      BY <2>4, <3>2, <3>4
    <3> QED BY <3>3, <3>4
  <2>6. Tallied(c, s)
    BY <2>1 DEF s
  <2> QED BY <1>1, <1>3, <2>2, <2>4, <2>5, <2>6, TallyStep
<1>9. ASSUME NEW kind \in RowKinds, SaveAnswers(c, kind)
      PROVE  RowInv'
  <2> DEFINE s == [t EXCEPT ![kind]["answered"] = t[kind]["answered"] + 1]
             f == [kind |-> kind, of |-> "count"]
  <2>1. flush[c] = f /\ Tallied(c, s) /\ flush' = [flush EXCEPT ![c] = None]
    BY <1>9 DEF SaveAnswers, Answered, t
  <2>2. s \in [RowKinds -> Tally]
        /\ \A k \in RowKinds : s[k] = IF k = kind THEN [t[k] EXCEPT !["answered"] = t[k]["answered"] + 1] ELSE t[k]
    BY <1>2 DEF Tally, Fields
  <2> HIDE DEF s
  <2>3. ASSUME NEW k \in RowKinds
        PROVE  Agrees(s[k], k, None)
    <3>1. During(f, k, "count") = (IF k = kind THEN 1 ELSE 0) /\ During(f, k, "insert") = 0
      BY DuringFacts
    <3>2. During(None, k, "insert") = 0 /\ During(None, k, "count") = 0
      BY DuringFacts
    <3>3. Agrees(t[k], k, f) /\ t[k] \in Tally
      BY <1>2, <2>1
    <3> HIDE DEF f
    <3> QED BY <2>2, <3>1, <3>2, <3>3 DEF Agrees, Tally, Fields
  <2> QED BY <1>1, <2>1, <2>2, <2>3, TallyStep
<1>10. ASSUME OtherFlush(c)
       PROVE  RowInv'
  <2>1. ASSUME NEW k \in RowKinds
        PROVE  /\ \A f \in {None, Other} : Agrees(t[k], k, f) => \A g \in {None, Other} : Agrees(t[k], k, g)
    BY DuringFacts DEF Agrees
  <2>2. CASE flush[c] = None /\ flush' = [flush EXCEPT ![c] = Other] /\ Tallied(c, Flushed(t))
    <3>1. ASSUME NEW k \in RowKinds
          PROVE  Agrees(Flushed(t)[k], k, Other)
      <4>1. Agrees(t[k], k, Other) /\ t[k] \in Tally
        BY <1>2, <2>1, <2>2
      <4>2. Flushed(t)[k] = [t[k] EXCEPT !["rows"] = t[k]["rows"] + t[k]["added"], !["added"] = 0]
        BY <1>2, FlushedFacts
      <4>3. Agrees([t[k] EXCEPT !["rows"] = t[k]["rows"] + t[k]["added"], !["added"] = 0], k, Other)
        BY <4>1, FlushedAgrees
      <4> QED BY <4>2, <4>3
    <3>2. Other \in Flush
      BY DEF Other, Flush
    <3> QED BY <1>1, <1>2, <2>2, <3>1, <3>2, FlushedFacts, TallyStep
  <2>3. CASE flush[c] = Other /\ flush' = [flush EXCEPT ![c] = None] /\ tally' = tally
    <3>1. Tallied(c, t)
      BY <2>3 DEF Tallied, t, RowInv, KeepsTypes
    <3>2. \A k \in RowKinds : Agrees(t[k], k, None)
      BY <1>2, <2>1, <2>3
    <3> QED BY <1>1, <1>2, <2>3, <3>1, <3>2, TallyStep
  <2> QED BY <1>10, <2>2, <2>3 DEF OtherFlush, t
<1> QED BY <1>4, <1>5, <1>6, <1>7, <1>8, <1>9, <1>10 DEF SaveStep

\* A finished job is completed as the status says.
LEMMA FinishedFacts ==
    ASSUME NEW status \in RunStatus
    PROVE  /\ Finished(status) \in {"completed", "failed"}
           /\ (Finished(status) = "completed") = (status = "completed")
BY DEF Finished

\* The agent ends, the job as status says and the run as after does.
LEMMA EndedAs ==
    ASSUME RowInv, NEW c \in Crawls, EndAgent(c),
           NEW status \in {"completed", "timed_out", "failed"}, NEW after \in RunStatus,
           NEW to \in {"followup", "closing", "raised"},
           stage' = [stage EXCEPT ![c] = to], run' = [run EXCEPT ![c] = after],
           job' = [job EXCEPT ![c] = Finished(status)],
           (after = "completed") = (status = "completed"),
           to = "followup" => status = "completed" /\ after = "completed"
    PROVE  RowInv'
<1> DEFINE t == tally[c]
           j == Finished(status)
<1>1. /\ stage[c] = "working" /\ c \notin broken /\ Idle(c) /\ Tallied(c, Flushed(t))
      /\ UNCHANGED <<flush, saves, broken, generated, committed>>
  BY DEF EndAgent, Works
<1>2. /\ AllAgree(c) /\ c \notin generated /\ committed[c] = None
      /\ t \in [RowKinds -> Tally]
  BY <1>1 DEF RowInv, KeepsTypes, IntactInv, FollowInv
<1>3. j \in {"completed", "failed"} /\ (j = "completed") = (status = "completed")
  BY FinishedFacts DEF RunStatus
<1> HIDE DEF j, t
<1>4. job' = [job EXCEPT ![c] = j]
  BY DEF j
<1>5. Flushed(t) \in [RowKinds -> Tally]
  BY <1>2, FlushedFacts
<1>6. KeepsTypes'
  BY <1>1, <1>3, <1>4, <1>5 DEF RowInv, KeepsTypes, Stages, JobStatus, Tallied
<1>7. /\ stage'[c] = to /\ run'[c] = after /\ job'[c] = j /\ tally'[c] = Flushed(t)
      /\ \A d \in Crawls \ {c} : /\ stage'[d] = stage[d] /\ run'[d] = run[d] /\ job'[d] = job[d]
                                 /\ tally'[d] = tally[d]
  BY <1>1, <1>4 DEF RowInv, KeepsTypes, Tallied
<1>8. AllAgree(c)'
  <2>1. ASSUME NEW k \in RowKinds
        PROVE  Agrees(Flushed(t)[k], k, flush[c])
    <3>1. Agrees(t[k], k, flush[c]) /\ t[k] \in Tally
      BY <1>2 DEF AllAgree, t
    <3>2. Flushed(t)[k] = [t[k] EXCEPT !["rows"] = t[k]["rows"] + t[k]["added"], !["added"] = 0]
      BY <1>2, FlushedFacts
    <3>3. Agrees([t[k] EXCEPT !["rows"] = t[k]["rows"] + t[k]["added"], !["added"] = 0], k, flush[c])
      BY <3>1, FlushedAgrees
    <3> QED BY <3>2, <3>3
  <2> QED BY <1>1, <1>7, <2>1 DEF AllAgree
<1>9. Idle(c)'
  <2>1. ASSUME NEW k \in RowKinds PROVE Flushed(t)[k]["due"] = t[k]["due"]
    <3>1. t[k] \in [Fields -> Nat]
      BY <1>2 DEF Tally
    <3>2. Flushed(t)[k] = [t[k] EXCEPT !["rows"] = t[k]["rows"] + t[k]["added"], !["added"] = 0]
      BY <1>2, FlushedFacts
    <3> QED BY <3>1, <3>2 DEF Fields
  <2> QED BY <1>1, <1>7, <2>1 DEF Idle, t
<1>10. IntactInv(c)'
  BY <1>3, <1>7, <1>8, <1>9 DEF IntactInv, Settled
<1>11. FollowInv(c)'
  BY <1>1, <1>2 DEF FollowInv
<1> QED BY <1>1, <1>6, <1>7, <1>10, <1>11, OneCrawl

\* The agent returns, is timed out, or raises: the job follows the run.
LEMMA EndStep ==
    ASSUME RowInv, NEW c \in Crawls, EndAgent(c)
    PROVE  RowInv'
<1>1. ASSUME NEW status \in {"completed", "timed_out", "failed"},
             run' = [run EXCEPT ![c] = status],
             job' = [job EXCEPT ![c] = Finished(status)],
             Move(c, "working", IF status = "completed" THEN "followup" ELSE "closing")
      PROVE  RowInv'
  <2> DEFINE to == IF status = "completed" THEN "followup" ELSE "closing"
  <2>1. stage' = [stage EXCEPT ![c] = to]
    BY <1>1 DEF Move
  <2>2. to \in {"followup", "closing", "raised"} /\ (to = "followup" => status = "completed")
    OBVIOUS
  <2>3. status \in RunStatus
    BY DEF RunStatus
  <2> HIDE DEF to
  <2> QED BY <1>1, <2>1, <2>2, <2>3, EndedAs
<1>2. ASSUME job' = [job EXCEPT ![c] = Finished("failed")],
             Move(c, "working", "raised"), run' = run, run[c] # "completed"
      PROVE  RowInv'
  <2>1. run \in [Crawls -> RunStatus] /\ run[c] \in RunStatus
    BY DEF RowInv, KeepsTypes
  <2>2. run' = [run EXCEPT ![c] = run[c]]
    BY <1>2, <2>1
  <2>3. stage' = [stage EXCEPT ![c] = "raised"]
    BY <1>2 DEF Move
  <2> QED BY <1>2, <2>1, <2>2, <2>3, EndedAs
<1>3. run[c] # "completed"
  BY DEF EndAgent, Works, RowInv, IntactInv
<1> QED BY <1>1, <1>2, <1>3 DEF EndAgent

\* A generation run follows a completed crawl that answered with requirements.
LEMMA FollowStep ==
    ASSUME RowInv, NEW c \in Crawls, FollowUp(c)
    PROVE  RowInv'
<1>1. PICK to \in {"closing", "raised"} : stage' = [stage EXCEPT ![c] = to]
  BY DEF FollowUp, Move
<1>2. /\ stage[c] = "followup" /\ UNCHANGED <<run, job, tally, flush, saves, broken, committed>>
      /\ \/ generated' = generated
         \/ tally[c]["requirements"]["answered"] > 0 /\ generated' = generated \cup {c}
  BY DEF FollowUp, Move
<1>3. stage'[c] = to /\ \A d \in Crawls \ {c} : stage'[d] = stage[d]
  BY <1>1 DEF RowInv, KeepsTypes
<1>4. KeepsTypes'
  BY <1>1, <1>2 DEF RowInv, KeepsTypes, Stages
<1>5. c \notin broken' => IntactInv(c)'
  BY <1>2, <1>3, SameCrawl DEF RowInv, IntactInv
<1>6. c \notin broken /\ run[c] = "completed" /\ c \notin generated /\ committed[c] = None
  BY <1>2 DEF RowInv, IntactInv, FollowInv
<1>7. FollowInv(c)'
  BY <1>2, <1>3, <1>6 DEF FollowInv
<1> QED BY <1>2, <1>3, <1>4, <1>5, <1>7, OneCrawl

\* The worker's commit puts in the database what the session has, if it is intact.
LEMMA CommitStep ==
    ASSUME RowInv, NEW c \in Crawls, CommitCrawl(c)
    PROVE  RowInv'
<1> DEFINE m == InSession(c)
<1>1. /\ stage[c] \in {"closing", "raised"} /\ stage' = [stage EXCEPT ![c] = "ended"]
      /\ (c \notin broken /\ committed' = [committed EXCEPT ![c] = m]) \/ committed' = committed
      /\ UNCHANGED <<run, job, tally, flush, saves, broken, generated>>
  BY DEF CommitCrawl, InSession
<1>2. m \in [run: RunStatus, job: JobStatus \cup {None},
             rows: [RowKinds -> Nat], counted: [RowKinds -> Nat]]
  <2>1. /\ [kind \in RowKinds |-> tally[c][kind]["rows"]] \in [RowKinds -> Nat]
        /\ [kind \in RowKinds |-> tally[c][kind]["counted"]] \in [RowKinds -> Nat]
    BY DEF RowInv, KeepsTypes, Tally, Fields
  <2>2. run[c] \in RunStatus /\ job[c] \in JobStatus \cup {None}
    BY DEF RowInv, KeepsTypes
  <2> QED BY <2>1, <2>2 DEF InSession
<1> HIDE DEF m
<1>3. KeepsTypes'
  BY <1>1, <1>2 DEF RowInv, KeepsTypes, Stages
<1>4. stage'[c] = "ended" /\ \A d \in Crawls \ {c} : stage'[d] = stage[d]
  BY <1>1 DEF RowInv, KeepsTypes
<1>5. /\ committed'[c] = None \/ (c \notin broken /\ committed'[c] = m)
      /\ \A d \in Crawls \ {c} : committed'[d] = committed[d]
  BY <1>1 DEF RowInv, KeepsTypes, FollowInv
<1>6. IntactInv(c)'
  BY <1>4 DEF IntactInv
<1>7. FollowInv(c)'
  <2>1. c \notin broken => Settled(c)
    BY <1>1 DEF RowInv, IntactInv
  <2>2. Settled(c)' = Settled(c) /\ InSession(c)' = m
    BY <1>1, SameCrawl DEF m
  <2> QED BY <1>1, <1>4, <1>5, <2>1, <2>2 DEF RowInv, FollowInv
<1> QED BY <1>1, <1>3, <1>4, <1>5, <1>6, <1>7, OneCrawl

\* Every step keeps the rows and the job together.
LEMMA RowStep == RowInv /\ [CrawlNext]_crawlVars => RowInv'
<1> SUFFICES ASSUME RowInv, [CrawlNext]_crawlVars
             PROVE  RowInv'
  OBVIOUS
<1>1. CASE UNCHANGED crawlVars
  BY <1>1, SameCrawl DEF crawlVars, RowInv, KeepsTypes, IntactInv, FollowInv
<1>2. ASSUME NEW c \in Crawls, CrawlStep(c)
      PROVE  RowInv'
  BY <1>2, UntouchedSteps, CreateStep, BrokenSteps, SaveSteps, EndStep, FollowStep, CommitStep
  DEF CrawlStep
<1> QED BY <1>1, <1>2 DEF CrawlNext

\* The pool, the crawls and what they commit keep their types.
THEOREM CrawlTypes == CrawlSpec => []CrawlTypeOK
<1>1. PoolInv /\ RowInv => CrawlTypeOK
  BY DEF PoolInv, RowInv, KeepsTypes, CrawlTypeOK
<1> QED BY <1>1, PoolInit, PoolStep, RowInit, RowStep, PTL DEF CrawlSpec

\* What is committed of a crawl agrees with itself: its job is settled, it counts at least
\* what its calls answered and at most its rows, and no row is without a call, however the
\* calls of a turn get in each other's way; it is completed when the run is, and a
\* generation run follows only a completed crawl with requirements (save_crawl_page,
\* save_requirement, _finish_crawl_job, _maybe_dispatch_generation, the worker's commit).
THEOREM CommittedCrawlsAgree == CrawlSpec => []CommittedCrawlConsistent
<1>1. ASSUME RowInv
      PROVE  CommittedCrawlConsistent
  <2> SUFFICES ASSUME NEW c \in Crawls, committed[c] # None
               PROVE  LET m == committed[c] IN
                      /\ m.job # "running"
                      /\ (m.job = "completed") = (m.run = "completed")
                      /\ m.job = None => m.run = "pending"
                      /\ \A kind \in RowKinds :
                           /\ tally[c][kind]["answered"] <= m.counted[kind]
                           /\ m.counted[kind] <= m.rows[kind]
                           /\ m.rows[kind] <= tally[c][kind]["answered"] + tally[c][kind]["erred"]
                           /\ m.job = None => m.rows[kind] = 0
                      /\ c \in generated =>
                           m.run = "completed" /\ tally[c]["requirements"]["answered"] > 0
    BY DEF CommittedCrawlConsistent
  <2>1. /\ committed[c] = InSession(c) /\ Settled(c)
        /\ c \in generated => run[c] = "completed" /\ tally[c]["requirements"]["answered"] > 0
    BY <1>1, Zenon DEF RowInv, FollowInv
  <2>2. /\ committed[c].run = run[c] /\ committed[c].job = job[c]
        /\ \A kind \in RowKinds : /\ committed[c].rows[kind] = tally[c][kind]["rows"]
                                  /\ committed[c].counted[kind] = tally[c][kind]["counted"]
    BY <2>1 DEF InSession
  <2>3. /\ job[c] # "running" /\ (job[c] = "completed") = (run[c] = "completed")
        /\ job[c] = None => Untouched(c)
    BY <2>1, CrawlAssumption DEF Settled, Untouched, JobStatus
  <2>4. ASSUME NEW kind \in RowKinds
        PROVE  /\ tally[c][kind]["answered"] <= tally[c][kind]["counted"]
               /\ tally[c][kind]["counted"] <= tally[c][kind]["rows"]
               /\ tally[c][kind]["rows"] <= tally[c][kind]["answered"] + tally[c][kind]["erred"]
               /\ job[c] = None => tally[c][kind]["rows"] = 0
    <3>1. tally[c][kind] \in Tally
      BY <1>1 DEF RowInv, KeepsTypes
    <3>2. tally[c][kind]["due"] = 0 /\ Agrees(tally[c][kind], kind, None)
      BY <2>1 DEF Settled, Idle, AllAgree
    <3>3. During(None, kind, "insert") = 0 /\ During(None, kind, "count") = 0
      BY DuringFacts
    <3>4. job[c] = None => tally[c][kind]["rows"] = 0
      BY <2>3 DEF Untouched, NoTally, Fields
    <3> QED BY <3>1, <3>2, <3>3, <3>4 DEF Agrees, Tally, Fields
  <2>5. job[c] = None => run[c] = "pending"
    BY <2>3 DEF Untouched
  <2> QED BY <2>1, <2>2, <2>3, <2>4, <2>5
<1> QED BY <1>1, RowInit, RowStep, PTL DEF CrawlSpec

-----------------------------------------------------------------------------
\* What holds of a crawl that holds a browser, or that has ended with one.
LostInv(c) ==
    /\ stage[c] \in {"queued", "waiting", "opening", "ready"} => job[c] = None /\ run[c] = "pending"
    /\ stage[c] \in {"followup", "closing"} => slot[c] = None
    /\ stage[c] \in {"raised", "ended"} /\ slot[c] # None => job[c] = None /\ run[c] = "pending"

\* A step of one crawl leaves the others where they are.
LEMMA LostElsewhere ==
    ASSUME \A d \in Crawls : LostInv(d), NEW c \in Crawls, LostInv(c)',
           \A d \in Crawls \ {c} : /\ stage'[d] = stage[d] /\ slot'[d] = slot[d]
                                    /\ run'[d] = run[d] /\ job'[d] = job[d]
    PROVE  \A d \in Crawls : LostInv(d)'
BY DEF LostInv

\* Every step of a crawl keeps it, and leaves the other crawls alone.
LEMMA LostStep ==
    ASSUME PoolInv, KeepsTypes, \A d \in Crawls : LostInv(d), NEW c \in Crawls, CrawlStep(c)
    PROVE  \A d \in Crawls : LostInv(d)'
<1>1. /\ stage \in [Crawls -> Stages] /\ slot \in [Crawls -> Browsers \cup {None}]
      /\ run \in [Crawls -> RunStatus] /\ job \in [Crawls -> JobStatus \cup {None}]
  BY DEF PoolInv, KeepsTypes
<1>2. CASE GetPool(c)
  BY <1>1, <1>2, LostElsewhere DEF GetPool, Move, LostInv, PoolInv, StageInv, Before
<1>3. CASE Take(c)
  BY <1>1, <1>3, LostElsewhere DEF Take, Move, LostInv
<1>4. CASE Open(c)
  BY <1>1, <1>4, LostElsewhere DEF Open, Move, LostInv
<1>5. CASE CreateJob(c)
  BY <1>1, <1>5, LostElsewhere DEF CreateJob, Move, LostInv
<1>6. CASE CreateJobFails(c)
  BY <1>1, <1>6, LostElsewhere DEF CreateJobFails, Move, Release, LostInv
<1>7. CASE SaveStep(c)
  BY <1>7 DEF SaveStep, Save, SaveRefused, SaveInserted, Count, CountRefused, SaveAnswers,
              OtherFlush, LostInv
<1>8. CASE FlushFails(c)
  BY <1>8 DEF FlushFails, LostInv
<1>9. CASE EndAgent(c)
  <2>1. /\ \E to \in {"followup", "closing", "raised"} : stage' = [stage EXCEPT ![c] = to]
        /\ slot' = [slot EXCEPT ![c] = None]
        /\ \A d \in Crawls \ {c} : job'[d] = job[d] /\ run'[d] = run[d]
    BY <1>1, <1>9 DEF EndAgent, Move, Release
  <2> QED BY <1>1, <2>1, LostElsewhere DEF LostInv
<1>10. CASE EndBroken(c)
  BY <1>1, <1>10, LostElsewhere DEF EndBroken, Move, Release, LostInv
<1>11. CASE FollowUp(c)
  BY <1>1, <1>11, LostElsewhere DEF FollowUp, Move, LostInv
<1>12. CASE CommitCrawl(c)
  BY <1>1, <1>12, LostElsewhere DEF CommitCrawl, LostInv
<1> QED BY <1>2, <1>3, <1>4, <1>5, <1>6, <1>7, <1>8, <1>9, <1>10, <1>11, <1>12 DEF CrawlStep

\* A crawl that ends with a browser could not open its page: it has no job, and its run is
\* pending still (acquire, and the finally of CrawlAgent.execute).
THEOREM OnlyOpenLoses == CrawlSpec => []LostOnlyInOpen
<1> DEFINE Lost == \A c \in Crawls : LostInv(c)
<1>1. CrawlInit => Lost
  BY DEF CrawlInit, LostInv
<1>2. PoolInv /\ RowInv /\ Lost /\ [CrawlNext]_crawlVars => Lost'
  <2>1. ASSUME Lost, UNCHANGED crawlVars
        PROVE  Lost'
    BY <2>1 DEF crawlVars, LostInv
  <2>2. ASSUME PoolInv, RowInv, Lost, NEW c \in Crawls, CrawlStep(c)
        PROVE  Lost'
    BY <2>2, LostStep DEF RowInv
  <2> QED BY <2>1, <2>2 DEF CrawlNext
<1>3. Lost => LostOnlyInOpen
  BY DEF LostInv, LostOnlyInOpen
<1> QED BY <1>1, <1>2, <1>3, PoolInit, PoolStep, RowInit, RowStep, PTL DEF CrawlSpec

-----------------------------------------------------------------------------
(* A crawl's walk.                                                         *)

\* Slot k is sent to u.
Navigates(k, u) == call[k] # None /\ call[k].kind = "navigate" /\ call[k].url = u

\* What was opened without an error is remembered; two calls to a URL are of one turn; and
\* a call that has passed the check of a URL opened before it does is one of them, or comes
\* after such an error.
OpenInv ==
    /\ loads[1] \subseteq visited \cup reopens
    /\ \A u \in Urls, k, l \in Calls : k # l /\ Navigates(k, u) /\ Navigates(l, u) => u \in reopens
    /\ \A u \in loads[1], k \in Calls :
         Navigates(k, u) /\ call[k].at = "waiting" => u \in reopens
    /\ OpenedOnce

\* A call that waits for the page, or for an origin, has the page, or the origin.
CallInv ==
    \A k \in Calls : call[k] # None =>
        /\ call[k].kind = "navigate" => call[k].url \in Urls
        /\ call[k].kind = "launch" /\ call[k].at = "waiting" => shown # None
        /\ call[k].kind = "links" /\ call[k].at = "waiting" => call[k].origin \in Urls

\* The invariant of the walk.
WalkInv == WalkTypeOK /\ CallInv /\ OpenInv /\ LinksHonest

\* Nothing is open and nothing remembered at first.
LEMMA WalkStarts == WalkInit => WalkInv
<1> SUFFICES ASSUME WalkInit
             PROVE  WalkInv
  OBVIOUS
<1>1. loads \in [1 .. 2 -> SUBSET Urls] /\ loads[1] = {} /\ loads[2] = {}
  BY DEF WalkInit
<1>2. turns \in 0 .. MaxTurns
  BY WalkAssumption DEF WalkInit
<1> QED BY <1>1, <1>2 DEF WalkInit, WalkInv, WalkTypeOK, CallInv, OpenInv, OpenedOnce,
                         LinksHonest, Navigates

\* Two calls of a turn that are sent to a URL are counted as that turn's.
LEMMA TurnKeeps ==
    ASSUME WalkInv, TurnBegins
    PROVE  WalkInv'
<1>1. /\ call' \in [Calls -> NewCalls \cup {None}] /\ turns' = turns + 1 /\ turns < MaxTurns
      /\ reopens' = reopens \cup {u \in Urls : \E k, l \in Calls :
                                    k # l /\ call'[k] = Begun("navigate", u) /\ call'[l] = call'[k]}
      /\ UNCHANGED <<shown, visited, tiles, told, loads>>
  BY DEF TurnBegins
<1>2. \A c \in NewCalls : /\ c \in ToolCall /\ c.at = "begun"
                          /\ c.kind = "navigate" => c.url \in Urls /\ c = Begun("navigate", c.url)
  BY WalkAssumption DEF NewCalls, Begun, ToolCall, Kinds
<1>3. call' \in [Calls -> ToolCall \cup {None}]
  BY <1>1, <1>2
<1>4. \A k \in Calls : call'[k] # None => call'[k] \in NewCalls
  BY <1>1
<1>5. CallInv'
  BY <1>2, <1>4 DEF CallInv
<1>6. \A u \in Urls, k, l \in Calls :
         k # l /\ Navigates(k, u)' /\ Navigates(l, u)' => u \in reopens'
  BY <1>1, <1>2, <1>4 DEF Navigates
<1>7. turns' \in 0 .. MaxTurns
  BY <1>1, WalkAssumption DEF WalkInv, WalkTypeOK
<1>8. WalkTypeOK'
  BY <1>1, <1>3, <1>7 DEF WalkInv, WalkTypeOK
<1>9. \A u \in loads'[1], k \in Calls :
         Navigates(k, u)' /\ call'[k].at = "waiting" => u \in reopens'
  BY <1>2, <1>4 DEF Navigates
<1>10. OpenedOnce' /\ loads'[1] \subseteq visited' \cup reopens' \cup reopens' \cup reopens' \cup reopens' \cup reopens'
  BY <1>1 DEF WalkInv, OpenInv, OpenedOnce
<1>11. LinksHonest'
  BY <1>1 DEF WalkInv, LinksHonest
<1> QED BY <1>5, <1>6, <1>8, <1>9, <1>10, <1>11 DEF WalkInv, OpenInv

\* What a step of one call may do to the walk, apart from opening a URL and answering
\* with links: the page moves, pages are remembered, tiles are found.
Around(k) ==
    /\ shown' \in Urls \cup {None} /\ (shown # None => shown' # None)
    /\ visited \subseteq visited' /\ visited' \subseteq Urls /\ tiles' \subseteq Tiles
    /\ UNCHANGED <<turns, loads, reopens>>

\* A call that answers keeps the invariant.
LEMMA AnswerKeeps ==
    ASSUME WalkInv, NEW k \in Calls, Answers(k), Around(k), told' = told
    PROVE  WalkInv'
<1>1. /\ call' \in [Calls -> ToolCall \cup {None}]
      /\ \A l \in Calls : call'[l] # None => call'[l] = call[l]
  BY DEF Answers, WalkInv, WalkTypeOK
<1>2. WalkTypeOK'
  BY <1>1 DEF Around, WalkInv, WalkTypeOK
<1>3. CallInv'
  BY <1>1 DEF Around, WalkInv, CallInv
<1>4. OpenInv'
  BY <1>1 DEF Around, WalkInv, OpenInv, OpenedOnce, Navigates
<1>5. LinksHonest'
  BY DEF WalkInv, LinksHonest
<1> QED BY <1>2, <1>3, <1>4, <1>5 DEF WalkInv

\* So does one that goes on to wait, if a navigation has checked its URL, a launch has the
\* page and a search for links has an origin.
LEMMA WaitKeeps ==
    ASSUME WalkInv, NEW k \in Calls, call[k] # None, Around(k), told' = told,
           NEW o \in Urls \cup {None},
           call' = [call EXCEPT ![k] = [call[k] EXCEPT !.at = "waiting", !.origin = o]],
           call[k].kind = "navigate" => call[k].url \notin visited,
           call[k].kind = "launch" => shown' # None,
           call[k].kind = "links" => o # None
    PROVE  WalkInv'
<1> DEFINE c == [call[k] EXCEPT !.at = "waiting", !.origin = o]
<1>1. call[k] \in ToolCall /\ call \in [Calls -> ToolCall \cup {None}]
  BY DEF WalkInv, WalkTypeOK
<1>2. c \in ToolCall /\ c.kind = call[k].kind /\ c.url = call[k].url /\ c.origin = o
  BY <1>1 DEF ToolCall
<1> HIDE DEF c
<1>3. /\ call' \in [Calls -> ToolCall \cup {None}] /\ call'[k] = c
      /\ \A l \in Calls \ {k} : call'[l] = call[l]
  BY <1>1, <1>2 DEF c
<1>4. WalkTypeOK'
  BY <1>3 DEF Around, WalkInv, WalkTypeOK
<1>5. CallInv'
  BY <1>2, <1>3 DEF Around, WalkInv, CallInv
<1>6. \A u \in Urls, l \in Calls : Navigates(l, u)' => Navigates(l, u)
  BY <1>2, <1>3 DEF Navigates
<1>7. OpenInv'
  <2>1. \A u \in loads[1], l \in Calls :
           Navigates(l, u)' /\ call'[l].at = "waiting" => u \in reopens
    BY <1>2, <1>3 DEF WalkInv, OpenInv, Navigates
  <2>2. \A u \in Urls, l, m \in Calls :
           l # m /\ Navigates(l, u)' /\ Navigates(m, u)' => u \in reopens
    BY <1>6 DEF WalkInv, OpenInv
  <2> QED BY <2>1, <2>2 DEF Around, WalkInv, OpenInv, OpenedOnce
<1>8. LinksHonest'
  BY DEF WalkInv, LinksHonest
<1> QED BY <1>4, <1>5, <1>7, <1>8 DEF WalkInv

\* A call that goes on to wait is the call with that mark, and the origin it had.
LEMMA WaitsOn ==
    ASSUME WalkInv, NEW k \in Calls, call[k] # None, Waits(k)
    PROVE  /\ call[k].origin \in Urls \cup {None}
           /\ call' = [call EXCEPT ![k] = [call[k] EXCEPT !.at = "waiting", !.origin = call[k].origin]]
<1>1. call[k] \in ToolCall
  BY DEF WalkInv, WalkTypeOK
<1>2. [call[k] EXCEPT !.at = "waiting", !.origin = call[k].origin] = [call[k] EXCEPT !.at = "waiting"]
  BY <1>1 DEF ToolCall
<1> QED BY <1>1, <1>2 DEF Waits, ToolCall

\* A page that has loaded is remembered; if it was open before, two calls asked for it.
LEMMA LoadKeeps ==
    ASSUME WalkInv, NEW k \in Calls, NavigateLoads(k)
    PROVE  WalkInv'
<1> DEFINE u == call[k].url
<1>1. /\ Navigates(k, u) /\ call[k].at = "waiting" /\ u \in Urls
      /\ shown' = Leads[u] /\ visited' = visited \cup {u} /\ Answers(k)
      /\ loads' = [n \in 1 .. 2 |-> loads[n] \cup (IF n = 1 \/ u \in loads[n - 1] THEN {u} ELSE {})]
      /\ UNCHANGED <<tiles, told, turns, reopens>>
  BY DEF NavigateLoads, At, Navigates, RememberAsked, MovesTo, WalkInv, CallInv
<1> HIDE DEF u
<1>2. /\ call' \in [Calls -> ToolCall \cup {None}] /\ call'[k] = None
      /\ \A l \in Calls : call'[l] # None => call'[l] = call[l] /\ l # k
  BY <1>1 DEF Answers, WalkInv, WalkTypeOK
<1>3. /\ loads'[1] = loads[1] \cup {u}
      /\ loads'[2] = loads[2] \cup (IF u \in loads[1] THEN {u} ELSE {})
      /\ loads' \in [1 .. 2 -> SUBSET Urls]
  BY <1>1 DEF WalkInv, WalkTypeOK
<1>4. WalkTypeOK'
  BY <1>1, <1>2, <1>3, WalkAssumption DEF WalkInv, WalkTypeOK
<1>5. CallInv'
  BY <1>1, <1>2, WalkAssumption DEF WalkInv, CallInv
<1>6. OpenedOnce'
  BY <1>1, <1>3 DEF WalkInv, OpenInv, OpenedOnce
<1>7. \A v \in loads'[1], l \in Calls :
         Navigates(l, v)' /\ call'[l].at = "waiting" => v \in reopens'
  BY <1>1, <1>2, <1>3 DEF WalkInv, OpenInv, Navigates
<1>8. \A v \in Urls, l, m \in Calls :
         l # m /\ Navigates(l, v)' /\ Navigates(m, v)' => v \in reopens'
  BY <1>1, <1>2 DEF WalkInv, OpenInv, Navigates
<1>9. loads'[1] \subseteq visited' \cup reopens' \cup reopens' \cup reopens' \cup reopens' \cup reopens'
  BY <1>1, <1>3 DEF WalkInv, OpenInv
<1>10. LinksHonest'
  BY <1>1 DEF WalkInv, LinksHonest
<1> QED BY <1>4, <1>5, <1>6, <1>7, <1>8, <1>9, <1>10 DEF WalkInv, OpenInv

\* So is one whose page moved before it raised, and it may be opened again.
LEMMA RaiseKeeps ==
    ASSUME WalkInv, NEW k \in Calls, NavigateRaises(k)
    PROVE  WalkInv'
<1> DEFINE u == call[k].url
<1>1. /\ u \in Urls /\ Answers(k) /\ UNCHANGED <<visited, tiles, told, turns>>
      /\ \/ UNCHANGED <<shown, loads, reopens>>
         \/ /\ shown' = Leads[u] /\ reopens' = reopens \cup {u}
            /\ loads' = [n \in 1 .. 2 |-> loads[n] \cup (IF n = 1 \/ u \in loads[n - 1] THEN {u} ELSE {})]
  BY DEF NavigateRaises, At, MovesTo, WalkInv, CallInv
<1> HIDE DEF u
<1>2. CASE UNCHANGED <<shown, loads, reopens>>
  BY <1>1, <1>2, AnswerKeeps DEF Around, WalkInv, WalkTypeOK
<1>3. CASE /\ shown' = Leads[u] /\ reopens' = reopens \cup {u}
           /\ loads' = [n \in 1 .. 2 |-> loads[n] \cup (IF n = 1 \/ u \in loads[n - 1] THEN {u} ELSE {})]
  <2>1. /\ call' \in [Calls -> ToolCall \cup {None}] /\ call'[k] = None
        /\ \A l \in Calls : call'[l] # None => call'[l] = call[l] /\ l # k
    BY <1>1 DEF Answers, WalkInv, WalkTypeOK
  <2>2. /\ loads'[1] = loads[1] \cup {u}
        /\ loads'[2] = loads[2] \cup (IF u \in loads[1] THEN {u} ELSE {})
        /\ loads' \in [1 .. 2 -> SUBSET Urls]
    BY <1>1, <1>3 DEF WalkInv, WalkTypeOK
  <2>3. WalkTypeOK'
    BY <1>1, <1>3, <2>1, <2>2, WalkAssumption DEF WalkInv, WalkTypeOK
  <2>4. CallInv'
    BY <1>1, <1>3, <2>1, WalkAssumption DEF WalkInv, CallInv
  <2>5. OpenedOnce' /\ loads'[1] \subseteq visited' \cup reopens' \cup reopens' \cup reopens' \cup reopens' \cup reopens'
    BY <1>1, <1>3, <2>2 DEF WalkInv, OpenInv, OpenedOnce
  <2>6. \A v \in loads'[1], l \in Calls :
           Navigates(l, v)' /\ call'[l].at = "waiting" => v \in reopens'
    BY <1>1, <1>3, <2>1, <2>2 DEF WalkInv, OpenInv, Navigates
  <2>7. \A v \in Urls, l, m \in Calls :
           l # m /\ Navigates(l, v)' /\ Navigates(m, v)' => v \in reopens'
    BY <1>1, <1>3, <2>1 DEF WalkInv, OpenInv, Navigates
  <2>8. LinksHonest'
    BY <1>1 DEF WalkInv, LinksHonest
  <2> QED BY <2>3, <2>4, <2>5, <2>6, <2>7, <2>8 DEF WalkInv, OpenInv
<1> QED BY <1>1, <1>2, <1>3

\* Links as many as their bases have one base each.
LEMMA OneEach ==
    ASSUME NEW L, IsFiniteSet(L), Cardinality({Base[h] : h \in L}) = Cardinality(L)
    PROVE  \A g, h \in L : Base[g] = Base[h] => g = h
<1> DEFINE T == {Base[h] : h \in L}
           f == [h \in L |-> Base[h]]
<1>1. f \in Surjection(L, T)
  BY DEF Surjection
<1>2. f \in Injection(L, T)
  BY <1>1, FS_Surjection
<1> QED BY <1>2 DEF Injection, IsInjective

\* The bases of finitely many links are finitely many, and none only if there is no link.
LEMMA BasesFinite ==
    ASSUME NEW L, IsFiniteSet(L)
    PROVE  /\ Cardinality({Base[h] : h \in L}) \in Nat
           /\ Cardinality({Base[h] : h \in L}) = 0 => L = {}
<1> DEFINE T == {Base[h] : h \in L}
           f == [h \in L |-> Base[h]]
<1>1. f \in Surjection(L, T)
  BY DEF Surjection
<1>2. IsFiniteSet(T)
  BY <1>1, FS_Surjection
<1>3. Cardinality(T) \in Nat /\ (Cardinality(T) = 0 => T = {})
  BY <1>2, FS_CardinalityType, FS_EmptySet
<1> QED BY <1>3

\* The links a call answers with are of the origin, one per base, and none only if none
\* is left.
LEMMA LinksKeep ==
    ASSUME WalkInv, NEW k \in Calls, LinksAnswered(k)
    PROVE  WalkInv'
<1> DEFINE links == IF shown = None THEN {} ELSE SameOrigin(LinksOf[shown], call[k].origin)
           left == links \ visited
           bases == {Base[h] : h \in left}
           size == IF Cardinality(bases) < MaxLinks THEN Cardinality(bases) ELSE MaxLinks
<1>1. PICK L \in SUBSET left :
         /\ Cardinality(L) = size /\ Cardinality({Base[h] : h \in L}) = size
         /\ told' = [links |-> L, page |-> call[k].origin, left |-> left]
  BY DEF LinksAnswered, Unvisited
<1>2. Answers(k) /\ call[k].origin \in Urls
      /\ UNCHANGED <<shown, visited, tiles, turns, loads, reopens>>
  BY DEF LinksAnswered, At, WalkInv, CallInv
<1>3. /\ links \subseteq Urls /\ IsFiniteSet(links)
      /\ \A h \in links : Origin[call[k].origin] \in StartsWith[h]
  <2>1. CASE shown = None
    BY <2>1, FS_EmptySet
  <2>2. CASE shown # None
    <3>1. shown \in Urls /\ links = SameOrigin(LinksOf[shown], call[k].origin)
      BY <2>2 DEF WalkInv, WalkTypeOK
    <3>2. links \subseteq LinksOf[shown] /\ \A h \in links : Origin[call[k].origin] \in StartsWith[h]
      BY <3>1 DEF SameOrigin
    <3> HIDE DEF links
    <3>3. LinksOf[shown] \subseteq Urls /\ IsFiniteSet(LinksOf[shown])
      BY <3>1, WalkAssumption
    <3>4. IsFiniteSet(links)
      BY <3>2, <3>3, FS_Subset
    <3> QED BY <3>2, <3>3, <3>4
  <2> QED BY <2>1, <2>2
<1> HIDE DEF links
<1>4. IsFiniteSet(left) /\ IsFiniteSet(L) /\ L \subseteq Urls /\ left \subseteq Urls
  <2>1. left \subseteq links
    OBVIOUS
  <2>2. IsFiniteSet(left)
    BY <1>3, <2>1, FS_Subset
  <2>3. IsFiniteSet(L)
    BY <2>2, FS_Subset
  <2> QED BY <1>3, <2>2, <2>3
<1>5. \A g, h \in L : Base[g] = Base[h] => g = h
  BY <1>1, <1>4, OneEach
<1>6. L = {} => left = {}
  <2> SUFFICES ASSUME L = {}
               PROVE  left = {}
    OBVIOUS
  <2>1. Cardinality(L) = 0
    BY FS_EmptySet
  <2>2. Cardinality(bases) \in Nat /\ (Cardinality(bases) = 0 => left = {})
    BY <1>4, BasesFinite
  <2> QED BY <1>1, <2>1, <2>2, WalkAssumption
<1>7. \A h \in L : Origin[call[k].origin] \in StartsWith[h]
  BY <1>3
<1> HIDE DEF left, size, bases
<1>8. LinksHonest'
  BY <1>1, <1>5, <1>6, <1>7 DEF LinksHonest
<1>9. /\ call' \in [Calls -> ToolCall \cup {None}]
      /\ \A l \in Calls : call'[l] # None => call'[l] = call[l]
  BY <1>2 DEF Answers, WalkInv, WalkTypeOK
<1>10. WalkTypeOK'
  BY <1>1, <1>2, <1>4, <1>9 DEF WalkInv, WalkTypeOK
<1>11. CallInv' /\ OpenInv'
  BY <1>2, <1>9 DEF WalkInv, CallInv, OpenInv, OpenedOnce, Navigates
<1> QED BY <1>8, <1>10, <1>11 DEF WalkInv

\* Every step keeps the invariant of the walk.
LEMMA WalkStep == WalkInv /\ [WalkNext]_walkVars => WalkInv'
<1> SUFFICES ASSUME WalkInv, [WalkNext]_walkVars
             PROVE  WalkInv'
  OBVIOUS
<1>1. /\ shown \in Urls \cup {None} /\ visited \subseteq Urls /\ tiles \subseteq Tiles
      /\ call \in [Calls -> ToolCall \cup {None}]
  BY DEF WalkInv, WalkTypeOK
<1>2. CASE UNCHANGED walkVars
  BY <1>2 DEF walkVars, WalkInv, WalkTypeOK, CallInv, OpenInv, OpenedOnce, Navigates, LinksHonest
<1>3. ASSUME NEW k \in Calls, NavigateChecks(k)
      PROVE  WalkInv'
  <2>1. Around(k) /\ told' = told /\ call[k] # None /\ call[k].kind = "navigate"
    BY <1>1, <1>3 DEF NavigateChecks, At, Around
  <2>2. CASE Answers(k)
    BY <2>1, <2>2, AnswerKeeps
  <2>3. CASE call[k].url \notin visited /\ Waits(k)
    BY <2>1, <2>3, WaitsOn, WaitKeeps
  <2> QED BY <1>3, <2>2, <2>3 DEF NavigateChecks, MayOpen
<1>4. ASSUME NEW k \in Calls, NavigateRaises(k)
      PROVE  WalkInv'
  BY <1>4, RaiseKeeps
<1>5. ASSUME NEW k \in Calls, SapLogin(k) \/ DiscoverTiles(k) \/ CallRaises(k)
      PROVE  WalkInv'
  BY <1>1, <1>5, WalkAssumption, AnswerKeeps DEF SapLogin, DiscoverTiles, CallRaises, Around
<1>6. ASSUME NEW k \in Calls, LaunchClicks(k)
      PROVE  WalkInv'
  <2>1. call[k] # None /\ call[k].kind = "launch" /\ told' = told
    BY <1>6 DEF LaunchClicks, At
  <2>2. CASE Answers(k) /\ shown' = shown
    BY <1>1, <1>6, <2>1, <2>2, AnswerKeeps DEF LaunchClicks, Around
  <2>3. CASE /\ shown # None /\ call[k].url \in LinksOf[shown]
             /\ shown' = Leads[call[k].url] /\ Waits(k)
    <3>1. shown' \in Urls
      BY <1>1, <2>3, WalkAssumption
    <3>2. Around(k) /\ shown' # None
      BY <1>1, <1>6, <3>1, WalkAssumption DEF LaunchClicks, Around
    <3> QED BY <2>1, <2>3, <3>2, WaitsOn, WaitKeeps
  <2> QED BY <1>6, <2>2, <2>3 DEF LaunchClicks
<1>7. ASSUME NEW k \in Calls, LaunchSettles(k)
      PROVE  WalkInv'
  <2>1. shown \in Urls
    BY <1>1, <1>7 DEF LaunchSettles, At, WalkInv, CallInv
  <2> QED BY <1>1, <1>7, <2>1, AnswerKeeps DEF LaunchSettles, Around
<1>8. ASSUME NEW k \in Calls, LinksOrigin(k)
      PROVE  WalkInv'
  <2>1. /\ Around(k) /\ told' = told
        /\ call[k] # None /\ call[k].kind = "links"
    BY <1>1, <1>8 DEF LinksOrigin, At, Around
  <2>2. CASE Answers(k)
    BY <2>1, <2>2, AnswerKeeps
  <2>3. CASE shown # None /\ call' = [call EXCEPT ![k] = [call[k] EXCEPT !.at = "waiting", !.origin = shown]]
    BY <1>1, <2>1, <2>3, WaitKeeps
  <2> QED BY <1>8, <2>2, <2>3 DEF LinksOrigin
<1> QED
  BY <1>2, <1>3, <1>4, <1>5, <1>6, <1>7, <1>8, TurnKeeps, LoadKeeps, LinksKeep DEF WalkNext

\* The walk keeps its types.
THEOREM WalkTypes == WalkSpec => []WalkTypeOK
<1>1. WalkInv => WalkTypeOK
  BY DEF WalkInv
<1> QED BY <1>1, WalkStarts, WalkStep, PTL DEF WalkSpec

\* A crawl opens a URL again only if one turn asked for it twice or a goto raised when the
\* page had moved, and the links it is told of start with the origin, one per base,
\* unvisited, and none only if none is left (navigate_to_url, get_unvisited_links).
THEOREM WalkIsAccounted == WalkSpec => []WalkAccounted
<1>1. WalkInv => WalkAccounted
  BY DEF WalkInv, OpenInv, WalkAccounted
<1> QED BY <1>1, WalkStarts, WalkStep, PTL DEF WalkSpec
=============================================================================
