------------------------------- MODULE Protocol -------------------------------
(***************************************************************************)
(* What the lines mean: how a program writes a request, how the broker     *)
(* reads it, how it writes a notification and how the consumer reads that. *)
(* Here text is a sequence of characters; a command word with its colon is *)
(* one character, CommandWidth wide, that texts do not contain.            *)
(* One sender writes one request over its own connection; a consumer has   *)
(* subscribed before.                                                      *)
(***************************************************************************)
EXTENDS Naturals, Sequences, SequencesExt

CONSTANTS Chars,      \* the characters of texts
          TopicChars, \* bound: the characters of topics
          MaxLength   \* bound: how many of them a topic and a text have at most

Words == {"PUBLISH:", "SUBSCRIBE:", "UNSUBSCRIBE:", "PING", "MESSAGE:"}

ASSUME ProtocolConstantsOK ==
    /\ {":", "backslash", "newline", "return", "n", "r"} \subseteq Chars
    /\ Words \cap Chars = {}
    /\ TopicChars \subseteq Chars
    /\ MaxLength \in Nat

VARIABLES
    topic,      \* what the consumer has subscribed to; <<>> if its line was refused
    sent,       \* history: the call that was made
    wire,       \* what is on its way from the sender to the broker
    processed,  \* history: the lines the broker has read, and what it took them for
    stream,     \* the lines on their way to the consumer
    shown       \* the messages the consumer has shown

protocolVars == <<topic, sent, wire, processed, stream, shown>>

CommandWidth == [w \in Words |-> CASE w = "PING"         -> 4
                                   [] w \in {"PUBLISH:", "MESSAGE:"} -> 8
                                   [] w = "SUBSCRIBE:"   -> 10
                                   [] w = "UNSUBSCRIBE:" -> 12]

TopicTexts == SeqOf(TopicChars, MaxLength)
Texts      == SeqOf(Chars, MaxLength)

Newline == <<"newline">>
Colon   == <<":">>

Has(text, char) == char \in ToSet(text)

\* find(':'), 0 for npos.
FirstColon(text) == SelectInSeq(text, LAMBDA char : char = ":")

Before(text, n) == SubSeq(text, 1, n - 1)
After(text, n)  == SubSeq(text, n + 1, Len(text))

StartsWith(line, word) == line # <<>> /\ Head(line) = word

-------------------------------------------------------------------------------
(* The broker: process_message. *)

Error(reply) == [cmd |-> "ERROR", reply |-> reply]

\* Wrong: the least length of the comment tested as the other commands test theirs,
\* so that "PUBLISH:t:p" is refused.
ParsePublishStrictly(rest) ==
    LET first_colon == FirstColon(rest) IN
    IF CommandWidth["PUBLISH:"] + Len(rest) <= 11 \/ first_colon <= 1
    THEN Error("INVALID_FORMAT")
    ELSE [cmd |-> "PUBLISH", topic |-> Before(rest, first_colon),
          payload |-> After(rest, first_colon)]

\* The branch that replies EMPTY_TOPIC cannot be reached: the colon is not the first
\* character.
ParsePublish(rest) ==
    LET first_colon == FirstColon(rest) IN
    IF CommandWidth["PUBLISH:"] + Len(rest) < 10 \/ first_colon <= 1
    THEN Error("INVALID_FORMAT")
    ELSE [cmd |-> "PUBLISH", topic |-> Before(rest, first_colon),
          payload |-> After(rest, first_colon)]

\* The whole rest is the topic, colons included.
ParseTopic(word, rest, shortest, cmd) ==
    IF CommandWidth[word] + Len(rest) <= shortest
    THEN Error("INVALID_FORMAT")
    ELSE [cmd |-> cmd, topic |-> rest]

Parse(line) ==
    CASE line = <<>>                      -> Error("EMPTY_MESSAGE")
      [] StartsWith(line, "PUBLISH:")     -> ParsePublish(Tail(line))
      [] StartsWith(line, "SUBSCRIBE:")   -> ParseTopic("SUBSCRIBE:", Tail(line), 10, "SUBSCRIBE")
      [] StartsWith(line, "UNSUBSCRIBE:") -> ParseTopic("UNSUBSCRIBE:", Tail(line), 12, "UNSUBSCRIBE")
      [] StartsWith(line, "PING")         -> [cmd |-> "PING"]
      [] OTHER                            -> Error("UNKNOWN_COMMAND")

\* TopicManager::publish.
Notification(request) ==
    <<"MESSAGE:">> \o request.topic \o Colon \o request.payload

-------------------------------------------------------------------------------
(* The senders. *)

PublishLine(to, text) == <<"PUBLISH:">> \o to \o Colon \o text \o Newline

\* Wrong: the backslash itself is not escaped.
EscapedButBackslash(char) == CASE char = "newline" -> <<"backslash", "n">>
                               [] char = "return" -> <<"backslash", "r">>
                               [] char = ":"  -> <<"backslash", ":">>
                               [] OTHER       -> <<char>>

\* escape_message, character by character.
Escaped(char) == CASE char = "newline" -> <<"backslash", "n">>
                   [] char = "return" -> <<"backslash", "r">>
                   [] char = ":"  -> <<"backslash", ":">>
                   [] char = "backslash" -> <<"backslash", "backslash">>
                   [] OTHER       -> <<char>>

escape_message(text) == FoldLeft(LAMBDA out, char : out \o Escaped(char), <<>>, text)

\* The time, the level and the service name of format_log_message: the time has colons.
Prefix == <<"[", ":", "]", ":">>

format_log_message(text) == Prefix \o escape_message(text)

EndsBlank(text) == text # <<>> /\ Last(text) = "return"

\* A line of the producer's console, from which blanks at both ends have been cut: it
\* is sent as it is, or refused with a word of advice.
Sends(line) ==
    \/ StartsWith(line, "PUBLISH:") /\ Has(line, ":")
    \/ \E word \in {"SUBSCRIBE:", "UNSUBSCRIBE:", "PING"} : StartsWith(line, word)

\* Wrong: the colon stays with the payload.
ConsoleLineKeepsColon(line) ==
    IF StartsWith(line, "PUBLISH:")
    THEN LET rest == Tail(line) n == FirstColon(rest) IN
         PublishLine(Before(rest, n), After(rest, n - 1))
    ELSE line \o Newline

\* publish takes the line apart and puts it together again.
ConsoleLine(line) ==
    IF StartsWith(line, "PUBLISH:")
    THEN LET rest == Tail(line) n == FirstColon(rest) IN
         PublishLine(Before(rest, n), After(rest, n))
    ELSE line \o Newline

-------------------------------------------------------------------------------
(* The consumer: start_listening. *)

\* Wrong: the last colon ends the topic.
ShowAtLastColon(line) ==
    LET rest == Tail(line) n == SelectLastInSeq(rest, LAMBDA char : char = ":") IN
    IF StartsWith(line, "MESSAGE:") /\ n > 0
    THEN <<[topic |-> Before(rest, n), payload |-> After(rest, n)]>>
    ELSE <<>>

\* The message that a line shows; any other line is shown as it is.
ShowLine(line) ==
    LET rest == Tail(line) first_colon == FirstColon(rest) IN
    IF StartsWith(line, "MESSAGE:") /\ first_colon > 0
    THEN <<[topic |-> Before(rest, first_colon), payload |-> After(rest, first_colon)]>>
    ELSE <<>>

-------------------------------------------------------------------------------

Nothing == [by |-> "nobody"]

ProtocolInit ==
    /\ \E name \in TopicTexts :
          LET request == Parse(<<"SUBSCRIBE:">> \o name) IN
          topic = IF request.cmd = "SUBSCRIBE" THEN request.topic ELSE <<>>
    /\ sent = Nothing /\ wire = <<>>
    /\ processed = <<>> /\ stream = <<>> /\ shown = <<>>

Write(call, text) ==
    /\ sent' = call
    /\ wire' = text
    /\ UNCHANGED <<topic, processed, stream, shown>>

\* info, warn, error, debug: the topics are constants, and only the text is free.
Log(text) ==
    Write([by |-> "log", text |-> text],
          PublishLine(<<"t">>, format_log_message(text)))

\* metric and publish: nothing is escaped.
PublishRaw(to, text) ==
    Write([by |-> "publish", topic |-> to, text |-> text], PublishLine(to, text))

\* The producer's console.
Type(word, text) ==
    LET line == <<word>> \o text IN
    /\ ~Has(text, "newline") /\ ~EndsBlank(text) /\ Sends(line)
    /\ Write([by |-> "producer", line |-> line], ConsoleLine(line))

\* Any line at all, as by echo and nc.
TypeByHand(line) ==
    /\ ~Has(line, "newline")
    /\ Write([by |-> "hand", line |-> line], line \o Newline)

\* The read handler: getline, process_message.
ReadLine ==
    \E n \in DOMAIN wire :
        /\ wire[n] = "newline" /\ ~Has(Before(wire, n), "newline")
        /\ wire' = After(wire, n)
        /\ \E request \in {Parse(Before(wire, n))} :
              /\ processed' = Append(processed, [line |-> Before(wire, n), request |-> request])
              /\ stream' = IF request.cmd = "PUBLISH" /\ request.topic = topic
                           THEN Append(stream, Notification(request)) ELSE stream
        /\ UNCHANGED <<topic, sent, shown>>

Show ==
    /\ stream # <<>>
    /\ shown' = shown \o ShowLine(Head(stream))
    /\ stream' = Tail(stream)
    /\ UNCHANGED <<topic, sent, wire, processed>>

Send ==
    \/ \E text \in Texts : Log(text)
    \/ \E to \in TopicTexts, text \in Texts :
          \/ PublishRaw(to, text)
          \/ TypeByHand(to \o text)
          \/ \E word \in Words : Type(word, to \o text) \/ TypeByHand(<<word>> \o to \o text)

ProtocolNext ==
    \/ sent = Nothing /\ Send
    \/ ReadLine \/ Show

ProtocolSpec == ProtocolInit /\ [][ProtocolNext]_protocolVars

-------------------------------------------------------------------------------

\* The grammar in the comments of process_message, for a topic that is not empty and has
\* no colon: what is taken for a publication is "PUBLISH:topic:payload", read as it was
\* written, and every such line with a payload is taken for one; and so for the two
\* subscriptions, whose topic may have a colon.  No length test refuses a shortest
\* request or lets an empty topic through.  Whether a payload may be empty is left
\* open: the comment at the length test says "need at least "PUBLISH:t:p" (11 chars
\* minimum)", and the test lets "PUBLISH:t:", of 10 characters, through.
GrammarAgrees ==
    \A n \in DOMAIN processed :
        LET line == processed[n].line
            request == processed[n].request
            ends == {m \in 3 .. Len(line) : line[m] = ":" /\ ~Has(SubSeq(line, 2, m - 1), ":")}
        IN /\ request.cmd = "PUBLISH" =>
                  /\ StartsWith(line, "PUBLISH:") /\ ends # {}
                  /\ line \o Newline = PublishLine(request.topic, request.payload)
           /\ StartsWith(line, "PUBLISH:") /\ (\E m \in ends : m < Len(line)) =>
                  request.cmd = "PUBLISH"
           /\ \A word \in {"SUBSCRIBE:", "UNSUBSCRIBE:"} :
                  StartsWith(line, word) =>
                      IF Len(line) = 1 THEN request.cmd = "ERROR"
                                       ELSE request.topic = Tail(line)

\* "Escape special characters that could break the protocol" (debug_logger.cpp):
\* whatever is logged, the broker reads one line, a publication in the logger's topic,
\* and whoever reads its payload can tell what was logged.  The service name, which is
\* not escaped, has no such characters here: it is part of the constant Prefix.
LogIsOneLine ==
    sent.by = "log" /\ wire = <<>> =>
        /\ Len(processed) = 1
        /\ processed[1].request.topic = <<"t">>
        /\ ~\E text \in Texts \ {sent.text} :
               format_log_message(text) = processed[1].request.payload

\* What a program publishes in a topic without colon or newline, and the text without
\* newline, is shown by a consumer of that topic, unchanged and once; and a consumer of
\* another topic, or of one with a colon, is shown nothing of it.
ShownAsPublished ==
    sent.by = "publish" /\ wire = <<>> /\ stream = <<>>
    /\ ~Has(sent.topic, "newline") /\ ~Has(sent.topic, ":") /\ ~Has(sent.text, "newline") =>
        shown = IF sent.topic = topic /\ topic # <<>>
                THEN <<[topic |-> topic, payload |-> sent.text]>> ELSE <<>>

\* The producer takes a line apart by rules of its own; the broker reads what was typed.
TypedIsRead ==
    sent.by = "producer" /\ wire = <<>> =>
        Len(processed) = 1 /\ processed[1].line = sent.line
===============================================================================
