-------------------------------- MODULE Control --------------------------------
(***************************************************************************)
(* The control plane of a running node (node/src/control.rs): clients on   *)
(* the Unix socket, a handler task for each connection, and the queue that *)
(* submit_tx puts payloads into.                                           *)
(*                                                                         *)
(* What a client writes is a sequence of words and line ends.  A word      *)
(* stands for as many bytes as a request that fits, a line is a request if *)
(* it is one word that is one.                                             *)
(***************************************************************************)
EXTENDS Integers, Sequences, FiniteSets, SequencesExt

CONSTANTS
    Client,
    Written,          \* what a client may write
    MaxRequest,       \* MAX_REQUEST_BYTES, in words
    MaxConnections,   \* MAX_CONCURRENT_CONNECTIONS
    MaxQueue          \* MAX_PENDING_TRANSACTIONS

VARIABLES
    inbox,      \* inbox[c]: what c has written and its handler has not read
    answers,    \* answers[c]: what c has been sent
    line,       \* line[c]: where the connection of c stands
    consumed,   \* consumed[c]: the lines that the handler of c has read
    queued,      \* whose payloads pending_transactions has
    stopping    \* the stop flag, and whether serve has seen it

controlVars == <<inbox, answers, line, consumed, queued, stopping>>

\* "put": SubmitTx; "hex": one with a payload that is not hex or too large.
Request == {"status", "peers", "put", "hex"}
Blank == " "
NewLine == "\n"

Handled == {c \in Client : line[c] \in {"open", "left"}}

ControlInit ==
    /\ inbox \in [Client -> Written]
    /\ answers = [c \in Client |-> <<>>] /\ consumed = [c \in Client |-> <<>>]
    /\ line = [c \in Client |-> "none"]
    /\ queued = <<>> /\ stopping = "no"

\* serve: one task for each connection.  Over the limit the connection is dropped;
\* the flag is read before accept, which may still be waiting when it is set.
Accept(c) ==
    /\ line[c] = "none" /\ stopping # "seen"
    /\ line' = [line EXCEPT ![c] = IF Cardinality(Handled) < MaxConnections THEN "open" ELSE "dropped"]
    /\ stopping' = IF stopping = "set" THEN "seen" ELSE stopping
    /\ UNCHANGED <<inbox, answers, consumed, queued>>

\* The client goes away; its handler finds out when it writes, or reads the end.
Leave(c) ==
    /\ line[c] = "open" /\ line' = [line EXCEPT ![c] = "left"]
    /\ UNCHANGED <<inbox, answers, consumed, queued, stopping>>

Shutdown ==
    /\ stopping = "no" /\ stopping' = "set"
    /\ UNCHANGED <<inbox, answers, line, consumed, queued>>

\* read_limited_line: up to the line end, at most one word over the limit.  No
\* client waits for an answer with half a line, so the rest is what comes to the
\* end of the input.
ReadLimitedLine(s) ==
    LET budget == MaxRequest + 1
        ends == {i \in DOMAIN s : s[i] = NewLine}
        take == Min({budget, IF ends = {} THEN Len(s) ELSE Min(ends)})
    IN [words |-> SubSeq(s, 1, take), terminated |-> take > 0 /\ s[take] = NewLine,
        rest |-> SubSeq(s, take + 1, Len(s))]

Trim(words) == SelectSeq(words, LAMBDA w : w \notin {Blank, NewLine})

\* dispatch and submit_tx: the response, and who is queued.
Dispatch(c, words) ==
    CASE words = <<"put">> /\ Len(queued) < MaxQueue -> [ok |-> TRUE, queued |-> Append(queued, c)]
      [] words \in {<<"status">>, <<"peers">>} -> [ok |-> TRUE, queued |-> queued]
      [] OTHER -> [ok |-> FALSE, queued |-> queued]

Answer(c, ok) == answers' = IF line[c] = "open" THEN [answers EXCEPT ![c] = Append(@, ok)] ELSE answers

\* A variant that drains nothing and keeps a connection with too long a line.
HandleLineOpen(c) ==
    LET read == ReadLimitedLine(inbox[c])
        words == Trim(read.words)
    IN /\ line[c] \in {"open", "left"}
       /\ inbox' = [inbox EXCEPT ![c] = read.rest]
       /\ consumed' = [consumed EXCEPT ![c] = @ \o read.words]
       /\ \/ read.words = <<>>
             /\ line' = [line EXCEPT ![c] = "closed"] /\ UNCHANGED <<answers, queued>>
          \/ read.words # <<>> /\ words = <<>> /\ UNCHANGED <<line, answers, queued>>
          \/ words # <<>> /\ Answer(c, Dispatch(c, words).ok)
             /\ queued' = Dispatch(c, words).queued /\ UNCHANGED line
       /\ UNCHANGED stopping

\* handle_connection, for one line: the end of the input and a line that is not
\* UTF-8 close the connection, one that is too long does after an answer, a
\* blank one is passed over, and all others get one answer, which must get through.
HandleLine(c) ==
    LET read == ReadLimitedLine(inbox[c])
        words == Trim(read.words)
        tooLong == ~read.terminated /\ Len(read.words) > MaxRequest
        illegible == ~tooLong /\ "latin1" \in ToSet(words)
        ends == read.words = <<>> \/ tooLong \/ illegible
        answered == words # <<>> /\ ~illegible
    IN /\ line[c] \in {"open", "left"}
       /\ inbox' = [inbox EXCEPT ![c] = read.rest]
       /\ consumed' = [consumed EXCEPT ![c] = @ \o read.words]
       /\ line' = [line EXCEPT ![c] = IF ends \/ (answered /\ @ = "left") THEN "closed" ELSE @]
       /\ IF answered THEN Answer(c, ~tooLong /\ Dispatch(c, words).ok) ELSE UNCHANGED answers
       /\ queued' = IF answered /\ ~tooLong THEN Dispatch(c, words).queued ELSE queued
       /\ UNCHANGED stopping

\* drain_pending_transactions, by the sync driver.
DrainQueue ==
    /\ queued # <<>> /\ queued' = Tail(queued)
    /\ UNCHANGED <<inbox, answers, line, consumed, stopping>>

ControlNext ==
    \/ \E c \in Client : Accept(c) \/ Leave(c) \/ HandleLine(c)
    \/ Shutdown \/ DrainQueue

------------------------------------------------------------------------------
\* The lines of an input, by their line ends alone.
LinesOf(s) ==
    LET ends == SetToSortSeq({i \in DOMAIN s : s[i] = NewLine} \cup {Len(s) + 1}, <)
    IN [k \in DOMAIN ends |-> Trim(SubSeq(s, IF k = 1 THEN 1 ELSE ends[k - 1] + 1, ends[k] - 1))]

\* control.rs: "one request line in, exactly one response line out".  The answers
\* a client has are those to its lines that are not blank, one each and in their
\* order, through lines that are too long, malformed or without an end; and only
\* a line that is a request is answered with ok.
OneAnswerEach ==
    \A c \in Client :
        LET lines == SelectSeq(LinesOf(consumed[c]), LAMBDA l : l # <<>> /\ "latin1" \notin ToSet(l))
        IN /\ line[c] = "open" => Len(answers[c]) = Len(lines)
           /\ \A i \in DOMAIN answers[c] :
                 /\ i \in DOMAIN lines
                 /\ answers[c][i] => Len(lines[i]) = 1 /\ lines[i][1] \in Request
=============================================================================
