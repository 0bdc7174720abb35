---------------------------- MODULE MCSyslogRecv ----------------------------
(* Instances of SyslogRecv: a priority or none, a timestamp of either form or *)
(* none, then up to MaxBody tokens of every kind.  Behind a priority and the  *)
(* older timestamp also up to MaxLong tokens of the kinds that headers are    *)
(* made of, and every header with a host name or none, an identifier and a    *)
(* process id or none, with up to MaxText tokens of every kind behind it: a   *)
(* header with all its parts is six tokens, and what looks like another one   *)
(* is three.  A bare RFC 3164 timestamp is sent and parsed at any two times   *)
(* of two years.                                                              *)
EXTENDS SyslogRecv

CONSTANTS MaxBody, MaxLong, MaxText

MCValueOf(p) == CASE p = "<7>" -> 7 [] p = "<165>" -> 165 [] p = "<255>" -> 255

BodyTokens == {"mars", "1", "-", Pid, "[", ":", Rfc3339, Space}

HeaderTokens == {"mars", "-", Pid, ":", Space}

UpTo(n, tokens) == UNION {[1 .. m -> tokens] : m \in 0 .. n}

Headers ==
  {HostPart(host) \o IdentPart(ident, pid) :
     host \in {<<>>} \cup {<<h>> : h \in HostTokens}, ident \in IdentTokens, pid \in {<<>>, <<Pid>>}}

ClassicBodies ==
  UpTo(MaxLong, HeaderTokens)
    \cup {header \o text : header \in Headers, text \in UpTo(MaxText, BodyTokens)}

MCDatagrams ==
  {prio \o stamp \o body :
     prio \in {<<>>, <<"<255>">>},
     stamp \in {<<>>, <<Rfc3164>>, <<"1", Space, Rfc3339, Space>>},
     body \in UpTo(MaxBody, BodyTokens)}
  \cup {<<"<7>", Rfc3164>> \o body : body \in ClassicBodies}

AnyTime == {t \in [sent : 0 .. 2 * YearHours - 1, now : 0 .. 2 * YearHours] : t.sent <= t.now}

MCTransits(datagram) == IF datagram = <<Rfc3164>> THEN AnyTime ELSE {[sent |-> 1, now |-> 2]}
=============================================================================
