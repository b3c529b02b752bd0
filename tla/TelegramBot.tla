---------------------------- MODULE TelegramBot ----------------------------
(***************************************************************************)
(* src/services/telegram/bot.ts: long polling of the updates the Telegram  *)
(* server queues for the bot.  A request with an offset confirms, and      *)
(* drops from the queue, every update below it.  The offset lives in the   *)
(* memory of one process (one process polls; Telegram answers 409 to a     *)
(* second one).  Updates are numbered as they are sent.                    *)
(***************************************************************************)
EXTENDS Integers, Sequences

CONSTANTS
  Commands,     \* the updates that are /refresh_lot messages of our chat
  MaxUpdates,   \* bound: updates sent
  Limit,        \* updates per answer (100 in the code)
  MaxStarts     \* bound: times the process starts

ASSUME BotAssumption ==
  /\ MaxUpdates \in Nat /\ Limit \in Nat \ {0} /\ MaxStarts \in Nat
  /\ Commands \subseteq 1..MaxUpdates

VARIABLES
  sent,        \* updates sent so far
  confirmed,   \* the server has dropped every update below this one
  bot,         \* what the process does
  offset,      \* offset, 0 for undefined
  batch,       \* updates fetched and not handled yet
  runs,        \* how often each update's command was started
  answers,     \* how often a final reply to it was attempted
  starts,      \* times the process has started
  backlog,     \* history: the updates sent before the last start
  heard         \* history: updates sent while this process polls

botVars == <<sent, confirmed, bot, offset, batch, runs, answers, starts, backlog, heard>>

BotInit ==
  /\ sent = 0 /\ confirmed = 1 /\ bot = "down" /\ offset = 0 /\ batch = << >>
  /\ runs = [u \in 1..MaxUpdates |-> 0] /\ answers = runs
  /\ starts = 0 /\ backlog = 0 /\ heard = {}

\* A user writes; the update is queued whether or not the bot is there.
Write ==
  /\ sent < MaxUpdates
  /\ sent' = sent + 1
  /\ heard' = IF bot \in {"poll", "handle"} THEN heard \cup {sent + 1} ELSE heard
  /\ UNCHANGED <<confirmed, bot, offset, batch, runs, answers, starts, backlog>>

\* The queue from offset o on, and the answer to a request for it.
FirstQueued(o) == IF o > confirmed THEN o ELSE confirmed
Answer(o) ==
  LET n == sent + 1 - FirstQueued(o) IN
  [i \in 1..(IF n < Limit THEN n ELSE Limit) |-> FirstQueued(o) + i - 1]
Confirm == confirmed' = FirstQueued(offset)

StartBot ==
  /\ bot = "down"
  /\ starts < MaxStarts
  /\ starts' = starts + 1
  /\ bot' = "bootstrap"
  /\ offset' = 0
  /\ backlog' = sent
  /\ UNCHANGED <<sent, confirmed, batch, runs, answers, heard>>

\* Mutant of Bootstrap: one page is taken for all.
BootstrapOnePage ==
  /\ bot = "bootstrap"
  /\ Confirm
  /\ LET a == Answer(offset) IN
     /\ offset' = IF a = << >> THEN offset ELSE a[Len(a)] + 1
     /\ bot' = "poll"
  /\ UNCHANGED <<sent, batch, runs, answers, starts, backlog, heard>>

\* bootstrapOffset passes over what is queued, page by page, up to a page that
\* is not full.
Bootstrap ==
  /\ bot = "bootstrap"
  /\ Confirm
  /\ LET a == Answer(offset) IN
     /\ offset' = IF a = << >> THEN offset ELSE a[Len(a)] + 1
     /\ bot' = IF Len(a) < Limit THEN "poll" ELSE "bootstrap"
  /\ UNCHANGED <<sent, batch, runs, answers, starts, backlog, heard>>

\* A request that fails here leaves startTelegramBotPolling: botStarted stays
\* true and the process lives on without its bot.
BootstrapFails ==
  /\ bot = "bootstrap"
  /\ bot' = "lost"
  /\ confirmed' \in {confirmed, FirstQueued(offset)}
  /\ UNCHANGED <<sent, offset, batch, runs, answers, starts, backlog, heard>>

\* The long poll is answered, or fails and is sent again after 5 s; the server
\* may have confirmed in that case too.
Poll ==
  /\ bot = "poll" /\ batch = << >>
  /\ Confirm
  /\ batch' = Answer(offset)
  /\ UNCHANGED <<sent, bot, offset, runs, answers, starts, backlog, heard>>

PollFails ==
  /\ bot = "poll" /\ batch = << >>
  /\ confirmed' \in {confirmed, FirstQueued(offset)}
  /\ UNCHANGED <<sent, bot, offset, batch, runs, answers, starts, backlog, heard>>

\* Mutant of Handle: the offset is advanced by the length of the batch.
HandleByBatch ==
  /\ bot = "poll" /\ batch # << >>
  /\ LET u == Head(batch) IN
     /\ offset' = u + Len(batch) + 1
     /\ batch' = << >>
     /\ bot' = IF u \in Commands THEN "handle" ELSE "poll"
     /\ runs' = [runs EXCEPT ![u] = IF u \in Commands THEN @ + 1 ELSE @]
  /\ UNCHANGED <<sent, confirmed, answers, starts, backlog, heard>>

\* The offset passes an update before it is handled; messages of other chats
\* and other texts are passed over.
Handle ==
  /\ bot = "poll" /\ batch # << >>
  /\ LET u == Head(batch) IN
     /\ offset' = u + 1
     /\ batch' = Tail(batch)
     /\ bot' = IF u \in Commands THEN "handle" ELSE "poll"
     /\ runs' = [runs EXCEPT ![u] = IF u \in Commands THEN @ + 1 ELSE @]
  /\ UNCHANGED <<sent, confirmed, answers, starts, backlog, heard>>

\* Mutant of Reply: a refresh that throws leaves the loop over the batch.
ReplyNot ==
  /\ bot = "handle"
  /\ bot' = "poll"
  /\ batch' = << >>
  /\ \E a \in {0, 1} : answers' = [answers EXCEPT ![offset - 1] = @ + a]
  /\ UNCHANGED <<sent, confirmed, offset, runs, starts, backlog, heard>>

\* refreshLotFullyByNumber returns or throws; either way a reply is attempted,
\* and whether it arrives changes nothing.
Reply ==
  /\ bot = "handle"
  /\ bot' = "poll"
  /\ answers' = [answers EXCEPT ![offset - 1] = @ + 1]
  /\ UNCHANGED <<sent, confirmed, offset, batch, runs, starts, backlog, heard>>

\* The process dies or is redeployed.
StopBot ==
  /\ bot # "down"
  /\ bot' = "down"
  /\ offset' = 0
  /\ batch' = << >>
  /\ heard' = {}
  /\ UNCHANGED <<sent, confirmed, runs, answers, starts, backlog>>

BotStep == Bootstrap \/ Poll \/ Handle \/ Reply

BotNext == BotStep \/ Write \/ StartBot \/ BootstrapFails \/ PollFails \/ StopBot

BotSpec == BotInit /\ [][BotNext]_botVars

-----------------------------------------------------------------------------
(* Properties. *)

BotTypeOK ==
  /\ sent \in 0..MaxUpdates /\ backlog \in 0..sent /\ confirmed \in 1..(sent + 1)
  /\ bot \in {"down", "bootstrap", "poll", "handle", "lost"}
  /\ offset \in 0..(sent + 1) /\ starts \in 0..MaxStarts
  /\ \A i \in 1..Len(batch) : batch[i] \in 1..sent
  /\ \A u \in 1..MaxUpdates : runs[u] \in Nat /\ answers[u] \in Nat
  /\ heard \subseteq 1..sent

\* A lot is refreshed at most once per command, restarts between the fetch and
\* the confirmation included, and never for a command that was sent before the
\* bot started (bot.ts:73-87).
CommandsRunOnce ==
  /\ \A u \in 1..MaxUpdates : runs[u] <= 1 /\ answers[u] <= runs[u]
  /\ bot = "handle" => offset - 1 > backlog

\* A command that is written while the bot polls is answered, whatever polls
\* and refreshes fail before, unless the process stops.
LiveCommandsAnswered ==
  \A u \in Commands : u \in heard ~> answers[u] = 1 \/ u \notin heard
=============================================================================
