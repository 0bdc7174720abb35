----------------------------- MODULE SyslogRecv -----------------------------
(***************************************************************************)
(* The syslog receive task of yaffle-server (syslog::run_recv_loop) and its  *)
(* parser, which takes optional parts off the front of a datagram one after  *)
(* another: priority, timestamp, host name, identifier with process id.      *)
(*                                                                          *)
(* A datagram is a sequence of tokens, each a run of characters of a kind    *)
(* that the parser tells apart.  A timestamp token says when the datagram    *)
(* was sent.  One that is well-formed but no date of this year, or that      *)
(* daylight saving skips, is to the parser the words, digits and colons it   *)
(* is made of.                                                               *)
(***************************************************************************)
EXTENDS SyslogTime, Sequences, SequencesExt

CONSTANTS
  Datagrams,   \* what can arrive
  Transits(_), \* when a datagram is sent and parsed
  ValueOf(_)   \* the number in a priority token

Priorities == {"<7>", "<165>", "<255>"}  \* <n>, where n is a u8
Digits == {"1"}
Words == {"mars"}                        \* letters, digits and dots
Odd == {"-"} \cup Priorities             \* no space, colon or bracket among them
Pid == "[926]"
Rfc3339 == "2023-08-02T09:00:00Z"
Rfc3164 == "Aug  2 09:00:00 "            \* with its final space
Space == " "
Tokens == Priorities \cup Digits \cup Words \cup Odd \cup {Pid, "[", ":", Rfc3339, Rfc3164, Space}

HostTokens == Digits \cup Words
IdentTokens == HostTokens \cup Odd

(* A Rfc3164 token opens with a word and a space, so that it is one token    *)
(* only where the timestamp parser looks at it.                              *)
WellTokenised(s) ==
  \A i \in DOMAIN s : s[i] = Rfc3164 => i = 1 \/ (i = 2 /\ s[1] \in Priorities)

ASSUME SyslogAssumption ==
  /\ \A d \in Datagrams : d \in Seq(Tokens) /\ WellTokenised(d)
  /\ \A d \in Datagrams : Transits(d) \subseteq {t \in [sent : Nat, now : Nat] : t.sent <= t.now}
  /\ \A p \in Priorities : ValueOf(p) \in 0 .. 255
  /\ None \notin Tokens /\ None \notin Seq(Tokens)

VARIABLES
  pc,        \* "recv", the part looked for next, "send", "exited"
  input,     \* the datagram
  remaining, \* what the parser has not consumed
  msg,       \* the fields found so far
  clock,     \* when the datagram was sent, and the clock while it is parsed
  open       \* the ingest loop receives

vars == <<pc, input, remaining, msg, clock, open>>

Unsent == [sent |-> 0, now |-> 0]

(* The entry of a table that opens with "kern" and "user", or "local" and a  *)
(* number.                                                                   *)
FacilityName(n) == IF n < 16 THEN <<"FACILITY_NAMES", n>> ELSE <<"local", n - 16>>

(* What a message has where the datagram says nothing; the time comes last.  *)
Empty ==
  [priority |-> 5, facility |-> FacilityName(1), source_timestamp |-> None, hostname |-> None,
   identifier |-> None, pid |-> None, message |-> <<>>, full_message |-> <<>>]

Init ==
  /\ pc = "recv"
  /\ input = <<>> /\ remaining = <<>>
  /\ msg = Empty
  /\ clock = Unsent
  /\ open = TRUE

-----------------------------------------------------------------------------
(* The parts: how many tokens each takes off the front, 0 if it is absent. *)

At(s, i) == IF i \in DOMAIN s THEN s[i] ELSE None

(* The length of the longest prefix made of these tokens. *)
Span(s, tokens) ==
  CHOOSE n \in 0 .. Len(s) :
    (\A i \in 1 .. n : s[i] \in tokens) /\ At(s, n + 1) \notin tokens

prio_and_facility(s) == IF At(s, 1) \in Priorities THEN 1 ELSE 0

(* The version and its space; take_until leaves the space after the time.    *)
version_and_rfc3339_timestamp(s) ==
  LET n == Span(s, Digits) IN
    IF n > 0 /\ At(s, n + 1) = Space /\ At(s, n + 2) = Rfc3339 /\ At(s, n + 3) = Space
    THEN n + 2 ELSE 0

rfc3164_timestamp(s) ==
  IF At(s, 1) = Rfc3164 /\ Rfc3164Time(Written(clock.sent), clock.now) # None THEN 1 ELSE 0

(* Mutant: a name may also end the datagram or come before a colon. *)
hostname_unterminated(s) == Span(s, HostTokens)

hostname(s) ==
  LET n == Span(s, HostTokens) IN IF n > 0 /\ At(s, n + 1) = Space THEN n + 1 ELSE 0

identifier_and_pid(s) ==
  LET n == Span(s, IdentTokens)
      m == IF At(s, n + 1) = Pid THEN n + 1 ELSE n
  IN IF n > 0 /\ At(s, m + 1) = ":" /\ At(s, m + 2) = Space THEN m + 2 ELSE 0

Consume(n) == remaining' = SubSeq(remaining, n + 1, Len(remaining))
Taken(s, n) == SubSeq(s, 1, n)

-----------------------------------------------------------------------------
Recv ==
  /\ pc = "recv"
  /\ pc' = "priority"
  /\ \E datagram \in Datagrams :
       /\ input' = datagram /\ remaining' = datagram
       /\ msg' = [Empty EXCEPT !.full_message = datagram]
       /\ clock' \in Transits(datagram)
  /\ UNCHANGED open

(* Mutant: masks one bit too many. *)
PriorityWide ==
  /\ pc = "priority" /\ pc' = "timestamp"
  /\ LET n == prio_and_facility(remaining) IN
       /\ Consume(n)
       /\ IF n = 0 THEN UNCHANGED msg
          ELSE msg' = [msg EXCEPT !.priority = ValueOf(remaining[1]) % 16]
  /\ UNCHANGED <<input, clock, open>>

Priority ==
  /\ pc = "priority"
  /\ pc' = "timestamp"
  /\ LET n == prio_and_facility(remaining) IN
       /\ Consume(n)
       /\ IF n = 0 THEN UNCHANGED msg
          ELSE LET combined == ValueOf(remaining[1]) IN
                 msg' = [msg EXCEPT !.priority = combined % 8,
                                    !.facility = FacilityName(combined \div 8)]
  /\ UNCHANGED <<input, clock, open>>

Timestamp ==
  /\ pc = "timestamp"
  /\ pc' = "hostname"
  /\ LET n5424 == version_and_rfc3339_timestamp(remaining)
         n3164 == rfc3164_timestamp(remaining)
     IN /\ Consume(IF n5424 > 0 THEN n5424 ELSE n3164)
        /\ msg' = [msg EXCEPT !.source_timestamp =
                     IF n5424 > 0 THEN clock.sent
                     ELSE IF n3164 > 0 THEN Rfc3164Time(Written(clock.sent), clock.now)
                     ELSE None]
  /\ UNCHANGED <<input, clock, open>>

Hostname ==
  /\ pc = "hostname"
  /\ pc' = "identifier"
  /\ LET n == hostname(remaining) IN
       /\ Consume(n)
       /\ msg' = [msg EXCEPT !.hostname = IF n = 0 THEN @ ELSE Taken(remaining, n - 1)]
  /\ UNCHANGED <<input, clock, open>>

Identifier ==
  /\ pc = "identifier"
  /\ pc' = "rest"
  /\ LET n == identifier_and_pid(remaining)
         ident == Span(remaining, IdentTokens)
     IN /\ Consume(n)
        /\ IF n = 0 THEN UNCHANGED msg
           ELSE msg' = [msg EXCEPT !.identifier = Taken(remaining, ident),
                                   !.pid = IF remaining[ident + 1] = Pid THEN Pid ELSE None]
  /\ UNCHANGED <<input, clock, open>>

NoHeader == msg.source_timestamp = None /\ msg.hostname = None /\ msg.identifier = None

Unspaced(s) == IF At(s, 1) = Space THEN Tail(s) ELSE s

Timed == IF msg.source_timestamp = None THEN clock.now ELSE msg.source_timestamp

(* Mutants: always, or never, drops a leading space. *)
RestStripped ==
  /\ pc = "rest" /\ pc' = "send"
  /\ msg' = [msg EXCEPT !.source_timestamp = Timed, !.message = Unspaced(remaining)]
  /\ remaining' = <<>>
  /\ UNCHANGED <<input, clock, open>>

RestUnstripped ==
  /\ pc = "rest" /\ pc' = "send"
  /\ msg' = [msg EXCEPT !.source_timestamp = Timed, !.message = remaining]
  /\ remaining' = <<>>
  /\ UNCHANGED <<input, clock, open>>

(* What is left is the message, without the space after a bare priority; and *)
(* a message without a time has the time of reception.                       *)
Rest ==
  /\ pc = "rest"
  /\ pc' = "send"
  /\ msg' = [msg EXCEPT !.source_timestamp = Timed,
                        !.message = IF NoHeader THEN Unspaced(remaining) ELSE remaining]
  /\ remaining' = <<>>
  /\ UNCHANGED <<input, clock, open>>

(* syslog_pipe.send().await; a full channel only delays it. *)
Send ==
  /\ pc = "send" /\ open
  /\ pc' = "recv"
  /\ input' = <<>> /\ msg' = Empty /\ clock' = Unsent
  /\ UNCHANGED <<remaining, open>>

SendFails ==
  /\ pc = "send" /\ ~open
  /\ pc' = "exited"
  /\ input' = <<>> /\ msg' = Empty /\ clock' = Unsent
  /\ UNCHANGED <<remaining, open>>

(* The ingest loop ends. *)
DropReceiver ==
  /\ open
  /\ open' = FALSE
  /\ UNCHANGED <<pc, input, remaining, msg, clock>>

Next ==
  \/ Recv
  \/ Priority \/ Timestamp \/ Hostname \/ Identifier \/ Rest
  \/ Send \/ SendFails
  \/ DropReceiver

Spec == Init /\ [][Next]_vars

-----------------------------------------------------------------------------
TypeOK ==
  /\ pc \in {"recv", "priority", "timestamp", "hostname", "identifier", "rest", "send", "exited"}
  /\ input \in Seq(Tokens)
  /\ remaining \in Seq(Tokens)
  /\ msg.priority \in 0 .. 7
  /\ msg.facility \in {FacilityName(n) : n \in 0 .. 31}
  /\ msg.source_timestamp \in Nat \cup {None}
  /\ msg.hostname = None \/ msg.hostname \in Seq(HostTokens)
  /\ msg.identifier = None \/ msg.identifier \in Seq(IdentTokens)
  /\ msg.pid \in {None, Pid}
  /\ clock \in [sent : Nat, now : Nat]
  /\ open \in BOOLEAN

(* The timestamp that the datagram opens with, behind the priority. *)
Stamped == SubSeq(input, prio_and_facility(input) + 1, Len(input))
StampLength ==
  IF version_and_rfc3339_timestamp(Stamped) > 0 THEN version_and_rfc3339_timestamp(Stamped)
  ELSE rfc3164_timestamp(Stamped)

(* A message of the classic form is read back: whatever host name, if any,   *)
(* identifier and text were put together behind a timestamp, those are the   *)
(* fields found, even if the text looks like more of a header (syslog.rs     *)
(* lines 168-208; tests test_full_msg_with_timestamp, ..._ident_no_pid).     *)
Rfc3164Form(body) == \E p \in Priorities : input = <<p, Rfc3164>> \o body

HostPart(host) == IF host = <<>> THEN <<>> ELSE host \o <<Space>>
IdentPart(ident, pid) == <<ident>> \o pid \o <<":", Space>>

ReadsBack ==
  pc = "send" =>
    \A host \in {<<>>} \cup {<<h>> : h \in HostTokens}, ident \in IdentTokens, pid \in {<<>>, <<Pid>>} :
      LET header == HostPart(host) \o IdentPart(ident, pid)
          text == SubSeq(input, 3 + Len(header), Len(input))
      IN Rfc3164Form(header \o text) =>
           /\ msg.hostname = (IF host = <<>> THEN None ELSE host)
           /\ msg.identifier = <<ident>>
           /\ msg.pid = (IF pid = <<>> THEN None ELSE Pid)
           /\ msg.message = text

(* Text that a space sets off from the priority is kept whole, whatever it   *)
(* looks like, and nothing in it becomes a host name or an identifier        *)
(* (syslog.rs lines 197-204; test_full_msg_no_timestamp, test_bare_message). *)
SpacedTextKept ==
  pc = "send" /\ At(input, 1) \in Priorities /\ At(input, 2) = Space =>
    /\ msg.source_timestamp = clock.now /\ msg.hostname = None /\ msg.identifier = None
    /\ msg.message = SubSeq(input, 3, Len(input))

(* No text gets lost between the parts: what was consumed and what is the    *)
(* message make up the datagram, but for the space after a bare priority.    *)
(* Every datagram gives a message (syslog.rs lines 172-208).                 *)
Header ==
  LET host == IF msg.hostname = None THEN 0 ELSE Len(msg.hostname) + 1
      ident == IF msg.identifier = None THEN 0
               ELSE Len(msg.identifier) + (IF msg.pid = None THEN 2 ELSE 3)
  IN prio_and_facility(input) + StampLength + host + ident

NoTextLost ==
  pc = "send" =>
    /\ msg.full_message = input
    /\ LET text == SubSeq(input, Header + 1, Len(input)) IN
         \/ msg.message = text
         \/ Header = prio_and_facility(input) /\ text = <<Space>> \o msg.message

(* A message that is parsed in the year in which it was sent gets the time    *)
(* at which it was sent, or the hour before in the hour that the end of      *)
(* daylight saving repeats: never a time at which the sender's clock said    *)
(* something else, and never one after its arrival.  Around New Year that    *)
(* does not hold: what was sent in the old year is dated at the end of the   *)
(* new one (syslog.rs lines 120-143).                                        *)
DatedWhenSent ==
  pc = "send" /\ At(Stamped, 1) = Rfc3164 /\ YearOf(clock.sent) = YearOf(clock.now) =>
    /\ msg.source_timestamp \in {clock.sent, clock.sent - 1}
    /\ LocalOf(msg.source_timestamp) = LocalOf(clock.sent)
    /\ msg.source_timestamp <= clock.now

(* "RFC 5424 version, space, RFC3339 timestamp" (syslog.rs line 173): after  *)
(* such a header comes the host name, as it does after the older timestamp   *)
(* of the next line.                                                         *)
Rfc5424HostRead ==
  pc = "send" =>
    \A p \in Priorities, h \in HostTokens :
      IsPrefix(<<p, "1", Space, Rfc3339, Space, h, Space>>, input) => msg.hostname = <<h>>
=============================================================================
