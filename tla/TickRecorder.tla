---------------------------- MODULE TickRecorder ----------------------------
(***************************************************************************)
(* The market data recorder of one market (data/recorder.py, run_market):  *)
(* one process, three asyncio tasks.                                       *)
(*   "stream"   ws_stream_loop: connects, buffers ticks, writes them when  *)
(*              the buffer is full, tears down and reconnects              *)
(*   "flusher"  periodic_flush: writes the buffer every three seconds;     *)
(*              created and cancelled by the stream task                   *)
(*   "poller"   t1_poll_loop: refreshes bars and polls chains over REST    *)
(* They share a buffer, which no await divides the reading from the        *)
(* clearing of, and one feed_health row, which each task loads and writes  *)
(* in a session of its own.  Any statement may fail, the vendor may refuse *)
(* or drop the stream or reject a call for its quota, and the process may  *)
(* be killed; systemd starts it again.                                     *)
(*                                                                         *)
(* A tick is its number.  One whose instrument is not known yet is skipped *)
(* by the loop and not counted here.  Left out: the quality flags of a     *)
(* tick, the subscription cap, subscribed_count and last_message_at.       *)
(***************************************************************************)
EXTENDS Naturals, Sequences, FiniteSets

CONSTANTS
  FlushSize,          \* WS_FLUSH_SIZE
  MaxTicks,           \* bound: ticks received in a behaviour
  Names,              \* underlyings of a polling pass
  DropCap,            \* _WS_RECONNECT_CAP
  RefusalCap          \* _WS_AUTH_REJECT_CAP

ASSUME RecorderAssumption ==
  /\ FlushSize \in Nat \ {0} /\ MaxTicks \in Nat /\ Names \in Nat \ {0}
  /\ DropCap \in Nat \ {0} /\ RefusalCap \in Nat /\ DropCap <= RefusalCap

Tasks == {"stream", "flusher", "poller"}

(* Why a stream ended: not at all, cleanly, by a refused handshake, by any *)
(* other exception.                                                        *)
Ends == {"none", "clean", "refused", "dropped"}

VARIABLES
  pc,                 \* where each task is
  buffer,             \* ticks received and not yet taken by a flush
  batch,              \* ticks a flush has taken and is writing, per task
  received,           \* ticks received so far
  stored, lost,       \* ticks in option_quotes; ticks nobody holds any more
  health,             \* the provider's feed_health row
  copy,               \* the row as each task's session loaded it
  closing,            \* the stream's flush is the one of the teardown
  ended,              \* why the stream that is torn down ended
  refused_before,     \* the stream before this one ended in a refusal
  wait,               \* reconnect_wait, in seconds
  polled,             \* underlyings polled in this pass
  report,             \* what the poller's health write will say of the quota
  rejections          \* calls rejected for quota in this pass

memory == <<buffer, batch, received, stored, lost>>
row    == <<health, copy>>
retry  == <<closing, ended, refused_before, wait>>
poll   == <<polled, report, rejections>>
vars   == <<pc, memory, row, retry, poll>>

NoRow == [connected |-> FALSE, error |-> "absent", quota |-> "absent"]
Rows  == [connected : BOOLEAN, error : {"none", "stream", "quota"},
          quota : {"low", "full"}] \cup {NoRow}

Elements(s) == {s[i] : i \in 1..Len(s)}
Smaller(a, b) == IF a < b THEN a ELSE b

Init ==
  /\ pc = [t \in Tasks |-> CASE t = "stream" -> "resolve"
                             [] t = "flusher" -> "off"
                             [] t = "poller" -> "start"]
  /\ buffer = <<>> /\ batch = [t \in Tasks |-> <<>>]
  /\ received = 0 /\ stored = {} /\ lost = {}
  /\ health = NoRow /\ copy = [t \in Tasks |-> NoRow]
  /\ closing = FALSE /\ ended = "none" /\ refused_before = FALSE /\ wait = 1
  /\ polled = 0 /\ report = "low" /\ rejections = 0

Goto(t, place) == pc' = [pc EXCEPT ![t] = place]

-----------------------------------------------------------------------------
(* flush, first part: take the buffer and leave it empty, in one go.  A    *)
(* faulty variant empties it only when the write has been awaited, which   *)
(* leaves the ticks to the other task's flush as well.                     *)
TakeWithoutClearing(t, held) ==
  /\ batch' = [batch EXCEPT ![t] = held] /\ buffer' = held
  /\ Goto(t, IF held = <<>> THEN "load" ELSE "write")

Take(t, held) ==
  /\ batch' = [batch EXCEPT ![t] = held] /\ buffer' = <<>>
  /\ Goto(t, IF held = <<>> THEN "load" ELSE "write")

(* What becomes of a batch: its transaction is committed or it is not.     *)
Settle(t, committed) ==
  /\ IF committed THEN stored' = stored \cup Elements(batch[t]) /\ lost' = lost
                  ELSE lost' = lost \cup Elements(batch[t]) /\ stored' = stored
  /\ batch' = [batch EXCEPT ![t] = <<>>]
  /\ UNCHANGED <<buffer, received>>

(* Where an exception leads: out of the stream's loop body into its        *)
(* teardown, out of the teardown into the handler; out of periodic_flush   *)
(* into its task, where it stays until somebody awaits it.                 *)
Raise(t) ==
  IF t = "flusher"
  THEN Goto(t, "failed") /\ UNCHANGED <<closing, ended, refused_before, wait>>
  ELSE /\ ended' = "dropped" /\ closing' = FALSE /\ UNCHANGED <<refused_before, wait>>
       /\ Goto(t, IF closing THEN "caught" ELSE "teardown")

(* flush, second part: the insert of the ticks, committed on its own.      *)
WriteBatch(t) ==
  /\ pc[t] = "write"
  /\ \/ Settle(t, TRUE) /\ Goto(t, "load") /\ UNCHANGED retry
     \/ \E committed \in BOOLEAN : Settle(t, committed) /\ Raise(t)
  /\ UNCHANGED <<row, poll>>

-----------------------------------------------------------------------------
(* update_feed_health.  The columns a task sets: a flush reports the       *)
(* connection, the handler of the stream an error, the poller its quota.   *)
(* A connection reported without an error clears the error.                *)
Fields(t) ==
  CASE t = "poller" /\ report = "rejected" -> [error |-> "quota", quota |-> "full"]
    [] t = "poller" /\ report # "rejected" -> [quota |-> report]
    [] pc[t] = "caught_commit"             -> [connected |-> FALSE, error |-> "stream"]
    [] t = "stream" /\ closing             -> [connected |-> FALSE]
    [] OTHER                               -> [connected |-> TRUE, error |-> "none"]

FreshRow == [connected |-> FALSE, error |-> "none", quota |-> "low"]

(* An INSERT carries every column, an UPDATE those that differ from what   *)
(* the session loaded.  A faulty variant writes the whole row back.        *)
WriteBackAll(t) ==
  LET base == IF copy[t] = NoRow THEN FreshRow ELSE copy[t]
  IN  [c \in DOMAIN base |-> IF c \in DOMAIN Fields(t) THEN Fields(t)[c] ELSE base[c]]

Written(t) ==
  LET base == IF copy[t] = NoRow THEN FreshRow ELSE health
  IN  [c \in DOMAIN base |->
         IF c \in DOMAIN Fields(t) /\ (copy[t] = NoRow \/ Fields(t)[c] # copy[t][c])
         THEN Fields(t)[c] ELSE base[c]]

LoadRow(t) == copy' = [copy EXCEPT ![t] = health] /\ UNCHANGED health
Forget(t)  == copy' = [copy EXCEPT ![t] = NoRow]

(* An INSERT fails when another session has inserted meanwhile.            *)
CanWrite(t) == copy[t] = NoRow => health = NoRow

LoadHealth(t) ==
  /\ pc[t] = "load"
  /\ \/ LoadRow(t) /\ Goto(t, "commit") /\ UNCHANGED retry
     \/ Raise(t) /\ UNCHANGED row
  /\ UNCHANGED <<memory, poll>>

(* The end of a flush.  After the one of the teardown the stream goes to   *)
(* wherever the exception that ended it, or its absence, leads.            *)
CommitHealth(t) ==
  /\ pc[t] = "commit"
  /\ \/ /\ CanWrite(t) /\ health' = Written(t) /\ Forget(t)
        /\ Goto(t, IF t = "flusher" THEN "sleep"
                   ELSE IF ~closing THEN "streaming"
                   ELSE IF ended = "clean" THEN "pause" ELSE "caught")
        /\ IF t = "stream" THEN closing' = FALSE /\ UNCHANGED <<ended, refused_before, wait>>
                           ELSE UNCHANGED retry
     \/ /\ Raise(t) /\ Forget(t)
        /\ health' \in {health} \cup (IF CanWrite(t) THEN {Written(t)} ELSE {})
  /\ UNCHANGED <<memory, poll>>

-----------------------------------------------------------------------------
(* The stream: keys are resolved, the flusher is started, and only then    *)
(* does the vendor get to see the handshake.                               *)
Resolve ==
  /\ pc["stream"] = "resolve"
  /\ \/ /\ pc' = [pc EXCEPT !["stream"] = "connect", !["flusher"] = "sleep"]
        /\ UNCHANGED ended
     \/ Goto("stream", "caught") /\ ended' = "dropped"
  /\ UNCHANGED <<closing, refused_before, wait, memory, row, poll>>

Connect ==
  /\ pc["stream"] = "connect"
  /\ \/ Goto("stream", "streaming") /\ UNCHANGED ended
     \/ Goto("stream", "teardown") /\ ended' \in {"refused", "dropped"}
  /\ UNCHANGED <<closing, refused_before, wait, memory, row, poll>>

(* A tick whose instrument has been looked up is flagged and buffered; a   *)
(* buffer that is full then goes straight into a flush.                    *)
Tick ==
  /\ pc["stream"] = "streaming" /\ received < MaxTicks
  /\ received' = received + 1
  /\ LET held == Append(buffer, received + 1)
     IN  IF Len(held) < FlushSize
         THEN buffer' = held /\ UNCHANGED <<pc, batch>>
         ELSE Take("stream", held)
  /\ UNCHANGED <<stored, lost, row, retry, poll>>

(* The vendor ends the stream, with or without an exception, or the lookup *)
(* of a tick's instrument fails.                                           *)
StreamEnds ==
  /\ pc["stream"] = "streaming"
  /\ ended' \in {"clean", "dropped"} /\ Goto("stream", "teardown")
  /\ UNCHANGED <<closing, refused_before, wait, memory, row, poll>>

(* The finally block.  Cancelling the flusher ends it at the statement it  *)
(* awaits, whose transaction may or may not have been committed; one that  *)
(* had failed before hands its exception to whoever awaits it, here, so    *)
(* that the last flush is not reached and the buffer stays as it is.       *)
StopSleeper ==
  /\ pc["flusher"] = "sleep"
  /\ pc' = [pc EXCEPT !["flusher"] = "off", !["stream"] = "last"]
  /\ closing' = TRUE /\ UNCHANGED <<memory, row, ended>>

StopWriter ==
  /\ pc["flusher"] \in {"write", "load", "commit"}
  /\ IF pc["flusher"] = "write" THEN \E committed \in BOOLEAN : Settle("flusher", committed)
                                ELSE UNCHANGED memory
  /\ Forget("flusher")
  /\ health' \in {health} \cup (IF pc["flusher"] = "commit" /\ CanWrite("flusher")
                                THEN {Written("flusher")} ELSE {})
  /\ pc' = [pc EXCEPT !["flusher"] = "off", !["stream"] = "last"]
  /\ closing' = TRUE /\ UNCHANGED ended

AwaitFailed ==
  /\ pc["flusher"] = "failed"
  /\ pc' = [pc EXCEPT !["flusher"] = "off", !["stream"] = "caught"]
  /\ ended' = "dropped" /\ UNCHANGED <<memory, row, closing>>

(* A faulty variant awaits the flusher without cancelling it.              *)
AwaitOnly == AwaitFailed

StopFlusher == StopSleeper \/ StopWriter \/ AwaitFailed

Teardown ==
  /\ pc["stream"] = "teardown" /\ StopFlusher
  /\ UNCHANGED <<refused_before, wait, poll>>

LastFlush ==
  /\ pc["stream"] = "last" /\ Take("stream", buffer)
  /\ UNCHANGED <<received, stored, lost, row, retry, poll>>

(* The handler records the error; when it cannot, the process ends.        *)
ReportError ==
  /\ pc["stream"] = "caught"
  /\ LoadRow("stream") /\ Goto("stream", "caught_commit")
  /\ UNCHANGED <<memory, retry, poll>>

CommitError ==
  /\ pc["stream"] = "caught_commit" /\ CanWrite("stream")
  /\ health' = Written("stream") /\ Forget("stream")
  /\ Goto("stream", "backoff")
  /\ UNCHANGED <<memory, retry, poll>>

(* The handler sleeps, and only then caps and doubles the wait.  Faulty    *)
(* variants forget the cap that fits the error, or any cap.                *)
LongerOneCap == Smaller(2 * wait, RefusalCap)
LongerUncapped == 2 * wait

Longer == Smaller(2 * wait, IF ended = "refused" THEN RefusalCap ELSE DropCap)

Backoff ==
  /\ pc["stream"] = "backoff"
  /\ wait' = Longer /\ refused_before' = (ended = "refused") /\ ended' = "none"
  /\ Goto("stream", "resolve")
  /\ UNCHANGED <<closing, memory, row, poll>>

Pause ==
  /\ pc["stream"] = "pause"
  /\ wait' = 1 /\ refused_before' = (ended = "refused") /\ ended' = "none"
  /\ Goto("stream", "resolve")
  /\ UNCHANGED <<closing, memory, row, poll>>

-----------------------------------------------------------------------------
PeriodicFlush ==
  /\ pc["flusher"] = "sleep" /\ Take("flusher", buffer)
  /\ UNCHANGED <<received, stored, lost, row, retry, poll>>

-----------------------------------------------------------------------------
(* The poller.  Between two passes it remembers nothing.                   *)
PassOver == polled' = 0 /\ report' = "low" /\ rejections' = 0

(* The bar refresh gives up at the first rejection, and swallows it, and   *)
(* any other failure with it.                                              *)
RefreshBars ==
  /\ pc["poller"] = "start"
  /\ rejections' \in {0, 1} /\ Goto("poller", "chains")
  /\ UNCHANGED <<polled, report, memory, row, retry>>

(* One underlying's chains, written or failed: the pass goes on.           *)
PollChain ==
  /\ pc["poller"] = "chains" /\ polled < Names
  /\ polled' = polled + 1
  /\ UNCHANGED <<pc, report, rejections, memory, row, retry>>

(* A rejection ends the pass, the segments that follow included.  A faulty *)
(* variant leaves the inner loop only, and asks for the next segment.      *)
LeaveSegment ==
  /\ report' = "rejected" /\ rejections' = rejections + 1
  /\ IF polled + 1 < Names THEN polled' = polled + 1 /\ pc' = pc
                           ELSE polled' = 0 /\ Goto("poller", "report")

LeavePass ==
  /\ report' = "rejected" /\ rejections' = rejections + 1
  /\ polled' = 0 /\ Goto("poller", "report")

ChainRejected ==
  /\ pc["poller"] = "chains" /\ polled < Names /\ LeavePass
  /\ UNCHANGED <<memory, row, retry>>

(* After a full pass the quota is asked for; a failure is logged.          *)
AskQuota ==
  /\ pc["poller"] = "chains" /\ polled = Names
  /\ \/ /\ Goto("poller", "report") /\ report' \in {"low", "full"}
        /\ polled' = 0 /\ rejections' = 0
     \/ Goto("poller", "start") /\ PassOver
  /\ UNCHANGED <<memory, row, retry>>

(* A failed report is logged, the one of a rejection ends the process.     *)
ReportPoll ==
  /\ pc["poller"] = "report"
  /\ \/ LoadRow("poller") /\ Goto("poller", "report_commit") /\ UNCHANGED poll
     \/ report # "rejected" /\ Goto("poller", "start") /\ PassOver /\ UNCHANGED row
  /\ UNCHANGED <<memory, retry>>

CommitPoll ==
  /\ pc["poller"] = "report_commit" /\ Forget("poller") /\ PassOver
  /\ \/ /\ CanWrite("poller") /\ health' = Written("poller")
        /\ Goto("poller", IF report = "rejected" THEN "backoff" ELSE "start")
     \/ /\ report # "rejected" /\ Goto("poller", "start")
        /\ health' \in {health} \cup (IF CanWrite("poller") THEN {Written("poller")} ELSE {})
  /\ UNCHANGED <<memory, retry>>

QuotaBackoff ==
  /\ pc["poller"] = "backoff" /\ Goto("poller", "start")
  /\ UNCHANGED <<memory, row, retry, poll>>

-----------------------------------------------------------------------------
(* The process ends, killed or by an exception nobody catches, and starts  *)
(* again: what was in memory is gone.  A commit that was under way is that *)
(* commit, or this step without it.                                        *)
Restart ==
  /\ pc' = [pc EXCEPT !["stream"] = "resolve", !["flusher"] = "off",
                      !["poller"] = "start"]
  /\ buffer' = <<>> /\ batch' = [t \in Tasks |-> <<>>]
  /\ lost' = (1..received) \ stored /\ UNCHANGED <<received, stored>>
  /\ copy' = [t \in Tasks |-> NoRow] /\ UNCHANGED health
  /\ closing' = FALSE /\ ended' = "none" /\ refused_before' = FALSE /\ wait' = 1
  /\ PassOver

(* The exceptions nobody catches: the two reports that meet a row inserted *)
(* in between.                                                             *)
Die(t) ==
  /\ \/ t = "stream" /\ pc[t] = "caught_commit"
     \/ t = "poller" /\ pc[t] = "report_commit" /\ report = "rejected"
  /\ ~CanWrite(t) /\ Restart

StreamStep ==
  \/ Resolve \/ Connect \/ Teardown \/ LastFlush
  \/ ReportError \/ CommitError \/ Backoff \/ Pause
  \/ WriteBatch("stream") \/ LoadHealth("stream") \/ CommitHealth("stream")
  \/ Die("stream")
FlusherStep ==
  PeriodicFlush \/ WriteBatch("flusher") \/ LoadHealth("flusher") \/ CommitHealth("flusher")
PollerStep ==
  \/ RefreshBars \/ PollChain \/ ChainRejected \/ AskQuota
  \/ ReportPoll \/ CommitPoll \/ QuotaBackoff \/ Die("poller")

Next == StreamStep \/ Tick \/ StreamEnds \/ FlusherStep \/ PollerStep \/ Restart

Spec == Init /\ [][Next]_vars

(* The event loop runs the tasks that can go on, and systemd starts the    *)
(* process again.  The vendor owes no tick, and no end of a stream; of the *)
(* poller nothing is asked.                                                *)
Fairness == WF_vars(StreamStep) /\ WF_vars(FlusherStep)

FairSpec == Spec /\ Fairness

-----------------------------------------------------------------------------
(* Types: places, ticks, rows.                                             *)
Places ==
  [stream : {"resolve", "connect", "streaming", "write", "load", "commit",
             "teardown", "last", "caught", "caught_commit", "backoff", "pause"},
   flusher : {"off", "sleep", "write", "load", "commit", "failed"},
   poller : {"start", "chains", "report", "report_commit", "backoff"}]

TypeOK ==
  /\ pc \in Places
  /\ received \in 0..MaxTicks
  /\ buffer \in Seq(1..received) /\ batch \in [Tasks -> Seq(1..received)]
  /\ stored \subseteq 1..received /\ lost \subseteq 1..received
  /\ health \in Rows /\ copy \in [Tasks -> Rows]
  /\ closing \in BOOLEAN /\ ended \in Ends /\ refused_before \in BOOLEAN
  /\ wait \in 1..RefusalCap
  /\ polled \in 0..Names /\ report \in {"low", "full", "rejected"}
  /\ rejections \in Nat

(* A tick is in one place: in the buffer, in the batch of one flush, in    *)
(* the database or lost, whatever the two flushing tasks, a cancelled      *)
(* write, a failed one or a restart did with it; and no flush holds or     *)
(* writes one twice.                                                       *)
InMemory == Elements(buffer) \cup UNION {Elements(batch[t]) : t \in Tasks}

TicksOnce ==
  /\ InMemory = (1..received) \ (stored \cup lost)
  /\ stored \cap lost = {}
  /\ \A t \in Tasks : Elements(batch[t]) \cap Elements(buffer) = {}
  /\ Elements(batch["stream"]) \cap Elements(batch["flusher"]) = {}
  /\ \A s \in {buffer} \cup {batch[t] : t \in Tasks} :
       Cardinality(Elements(s)) = Len(s)

(* While the stream waits to connect again the row says so, and after an   *)
(* error which one: no flush that began before the teardown can write over *)
(* it, nor can the poller.                                                 *)
DownIsShown ==
  pc["stream"] \in {"pause", "backoff"} =>
    /\ health # NoRow /\ ~health.connected
    /\ pc["stream"] = "backoff" => health.error # "none"

(* While the poller waits out an exhausted quota the row shows it used up, *)
(* whatever the stream's flushes write meanwhile.                          *)
QuotaShown == pc["poller"] = "backoff" => health.quota = "full"

HealthIsTrue == DownIsShown /\ QuotaShown

(* A wait beyond the normal cap is slept only next to a refusal: after one *)
(* or, the wait being doubled behind the sleep, once more after it.        *)
LongWaitNeedsRefusal ==
  pc["stream"] = "backoff" /\ wait > DropCap =>
    refused_before \/ ended = "refused"

(* An exhausted quota costs a pass two rejected calls at most: one of the  *)
(* bars, one of the chains.                                                *)
RejectionsFew == rejections <= 2

(* A teardown comes to its end, and the stream is resolved again.          *)
ComesBack == pc["stream"] = "teardown" ~> pc["stream"] = "resolve"

(* The comment on periodic_flush: a quiet period does not hold ticks in    *)
(* memory indefinitely.                                                    *)
IdleTicksFlushed == \A n \in 1..MaxTicks : n \in Elements(buffer) ~> n \notin Elements(buffer)
=============================================================================
