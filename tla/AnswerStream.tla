---------------------------- MODULE AnswerStream ----------------------------
(***************************************************************************)
(* How an upstream answer reaches the client and is judged on its way.     *)
(* The bytes of a stream arrive in chunks that end anywhere; both runtimes *)
(* put its lines together again, strip the provider's reasoning from each, *)
(* note whether the answer becomes visible, is cut short and what it cost, *)
(* and settle the call once the stream ends, breaks or is cancelled.       *)
(*                                                                         *)
(* A line is [json, reasoning, text, length, tokens, odd]: whether it is a *)
(* data line that parses, holds reasoning, holds "text", "blank" or "none",*)
(* ends its choice for length, how many tokens it reports (or NoReport),   *)
(* and whether its choices end with one that is no object.  Its bytes are  *)
(* two halves and a newline.  A byte says where it stands, so a buffer is  *)
(* the set of its bytes.                                                   *)
(***************************************************************************)
EXTENDS Integers, Sequences, FiniteSets, FiniteSetsExt, SequencesExt

CONSTANTS
    Lines,       \* the kinds of line an upstream may send
    MaxLines     \* bound: lines of one answer

NoReport == -1
Newline == 3

ASSUME LinesAssumption ==
    /\ Lines \subseteq [json : BOOLEAN, reasoning : BOOLEAN, text : {"text", "blank", "none"},
                       length : BOOLEAN, tokens : Nat \cup {NoReport}, odd : BOOLEAN]
    /\ MaxLines \in Nat

VARIABLES
    runtime,     \* "worker" (observedStream) or "node" (streamWithFinalizer)
    body,        \* the lines of the upstream's answer
    size,        \* how many bytes of them it sends before it ends
    arrived,     \* how many have been read
    pending,     \* the bytes of a line that is not complete yet
    seen,        \* [visible, truncated, tokens], the judgement so far
    forwarded,   \* the lines handed to the client, each [line, halves, stripped]
    reader,      \* "idle", "reading" (a pull awaits a chunk) or "closed"
    verdict      \* [by, success, tokens] once the call is settled

stream == <<runtime, body, size, arrived, pending, seen, forwarded, reader, verdict>>

Unseen == [visible |-> FALSE, truncated |-> FALSE, tokens |-> NoReport]
Open == [by |-> "nothing", success |-> FALSE, tokens |-> NoReport]

Byte(k) == [line |-> ((k - 1) \div Newline) + 1, part |-> ((k - 1) % Newline) + 1]

(* No stream: the state before the answer and of other requests.           *)
NoStream ==
    /\ runtime = "worker" /\ body = << >> /\ size = 0 /\ arrived = 0 /\ pending = {}
    /\ seen = Unseen /\ forwarded = {} /\ reader = "closed" /\ verdict = Open

(* The headers of a streamed answer arrived; it may stop in mid-line.      *)
Begin ==
    /\ runtime' \in {"worker", "node"}
    /\ body' \in SeqOf(Lines, MaxLines)
    /\ size' \in 0..(Newline * Len(body'))
    /\ arrived' = 0 /\ pending' = {} /\ seen' = Unseen /\ forwarded' = {}
    /\ reader' = "idle" /\ verdict' = Open

-----------------------------------------------------------------------------
(* The filter                                                              *)

Halves(buffer, i) == {b.part : b \in {x \in buffer : x.line = i /\ x.part # Newline}}
Whole(halves) == halves = {1, 2}

(* Mutated form: only a line with output is put together again.            *)
StrippedWithOutput(line, halves) == line.json /\ halves = {1, 2} /\ line.text # "none"

(* A line that does not parse leaves as it came.  In Node a choice that is *)
(* no object throws, and the line leaves as it came although it was judged.*)
Parses(line, halves) == line.json /\ Whole(halves)
Stripped(line, halves) == Parses(line, halves) /\ ~(runtime = "node" /\ line.odd)

(* sanitizeSse: the buffer is split at its newlines, and what follows the  *)
(* last one is kept, or at the end treated as a line.                      *)
LinesIn(buffer, flush) ==
    {i \in DOMAIN body : \E b \in buffer :
        b.line = i /\ (b.part = Newline \/ (flush /\ \A x \in buffer : x.line <= i))}

(* Lines are judged one after the other: the last report of tokens counts. *)
LastReport(lines, before) ==
    LET reports == {i \in lines : body[i].tokens # NoReport}
    IN  IF reports = {} THEN before ELSE body[Max(reports)].tokens

Judgement(buffer, lines) ==
    LET judged == {i \in lines : Parses(body[i], Halves(buffer, i))}
    IN  [visible |-> seen.visible \/ \E i \in judged : body[i].text # "none",
         truncated |-> seen.truncated \/ \E i \in judged : body[i].length,
         tokens |-> LastReport(judged, seen.tokens)]

Leaving(buffer, lines) ==
    {[line |-> i, halves |-> Halves(buffer, i),
      stripped |-> Stripped(body[i], Halves(buffer, i))] : i \in lines}

Filtered(buffer, lines) ==
    /\ seen' = Judgement(buffer, lines)
    /\ forwarded' = forwarded \cup Leaving(buffer, lines)

(* Mutated form: what follows the last newline is filtered at once.        *)
KeptNothing(buffer, lines) == {}

Kept(buffer, lines) == {b \in buffer : b.line \notin lines}

Settle(by, success, tokens) == verdict' = [by |-> by, success |-> success, tokens |-> tokens]
Succeeds(judgement) == judgement.visible /\ ~judgement.truncated

-----------------------------------------------------------------------------
(* pull and cancel                                                         *)

pull ==
    /\ reader = "idle"
    /\ reader' = "reading"
    /\ UNCHANGED <<runtime, body, size, arrived, pending, seen, forwarded, verdict>>

chunk(n) ==
    /\ reader = "reading"
    /\ arrived + n <= size
    /\ LET buffer == pending \cup {Byte(k) : k \in (arrived + 1)..(arrived + n)}
           lines == LinesIn(buffer, FALSE)
       IN  Filtered(buffer, lines) /\ pending' = Kept(buffer, lines)
    /\ arrived' = arrived + n
    /\ reader' = "idle"
    /\ UNCHANGED <<runtime, body, size, verdict>>

(* The upstream is done: the last line is flushed and the call settled.    *)
ends ==
    /\ reader = "reading"
    /\ arrived = size
    /\ Filtered(pending, LinesIn(pending, TRUE))
    /\ pending' = {}
    /\ Settle("end", Succeeds(seen'), seen'.tokens)
    /\ reader' = "closed"
    /\ UNCHANGED <<runtime, body, size, arrived>>

Stops(by, success) ==
    /\ Settle(by, success, seen.tokens)
    /\ reader' = "closed"
    /\ UNCHANGED <<runtime, body, size, arrived, pending, seen, forwarded>>

breaks == reader = "reading" /\ Stops("error", FALSE)

(* Between two pulls a cancellation settles the call as failed.            *)
cancelIdle == reader = "idle" /\ Stops("cancel", FALSE)

(* While a pull awaits a chunk, cancelling the upstream resolves that read *)
(* as done.  The Worker awaits it first, so the pull settles the call: as  *)
(* an answer that ended, unless there is a tail, which is judged but can   *)
(* no more be enqueued.  Node settles before it cancels.                   *)
PullSettles ==
    LET judgement == Judgement(pending, LinesIn(pending, TRUE))
    IN  /\ seen' = judgement
        /\ Settle("cancel", Succeeds(judgement) /\ pending = {}, judgement.tokens)

(* Mutated form: Node awaits the upstream's cancellation first, too.       *)
CancelAwaits == PullSettles
CancelSettles ==
    IF runtime = "worker" THEN PullSettles
    ELSE UNCHANGED seen /\ Settle("cancel", FALSE, seen.tokens)

cancelReading ==
    /\ reader = "reading"
    /\ CancelSettles
    /\ reader' = "closed"
    /\ UNCHANGED <<runtime, body, size, arrived, pending, forwarded>>

(* Node's inactivity deadline.                                             *)
streamDeadline == runtime = "node" /\ reader \in {"idle", "reading"} /\ Stops("deadline", FALSE)

Answer ==
    \/ pull
    \/ \E n \in 1..(Newline * MaxLines) : chunk(n)
    \/ ends
    \/ breaks
    \/ cancelIdle
    \/ cancelReading
    \/ streamDeadline

-----------------------------------------------------------------------------
(* validateChatCompletion, for an answer that is not streamed: its first   *)
(* choice must have visible text, and must not be cut short.               *)
hasVisibleOutput(texts) == "text" \in texts
validateChatCompletion(choices, texts, length) ==
    IF choices = 0 THEN "missing_choice"
    ELSE IF ~hasVisibleOutput(texts) THEN "empty_output"
    ELSE IF length THEN "truncated_output"
    ELSE "valid"
=============================================================================
