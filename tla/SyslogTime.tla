----------------------------- MODULE SyslogTime -----------------------------
(***************************************************************************)
(* The time of an RFC 3164 message (rfc3164_timestamp in syslog.rs): a month,*)
(* a day and a time of day without year or zone, read in the year in which   *)
(* the message is parsed and in the server's time zone.                      *)
(*                                                                          *)
(* Times are hours since 1970, years have YearHours hours, and the zone is   *)
(* one hour ahead from DstStart to DstEnd of every year and at 0 otherwise.  *)
(* The sender's clock and zone are the server's.                             *)
(***************************************************************************)
EXTENDS Integers

CONSTANTS YearHours, DstStart, DstEnd, None

ASSUME SyslogTimeAssumption ==
  /\ YearHours \in Nat /\ DstStart \in Nat /\ DstEnd \in Nat
  /\ 0 < DstStart /\ DstStart + 1 < DstEnd /\ DstEnd + 1 < YearHours
  /\ None \notin Int

(* chrono's Local. *)
Offset(t) == IF t % YearHours \in DstStart .. DstEnd - 1 THEN 1 ELSE 0
LocalOf(t) == t + Offset(t)
YearOf(t) == LocalOf(t) \div YearHours

(* from_local_datetime: no time, one, or in autumn two.                      *)
FromLocal(local) == {t \in {local - 1, local} : LocalOf(t) = local}

(* What the sender writes: its local time without the year.                  *)
Written(t) == LocalOf(t) % YearHours

(* Mutant: the second of two times. *)
Latest(times) == CHOOSE t \in times : \A u \in times : u <= t

(* Ambiguous(ts1, _) => Ok(ts1).  That chrono gives the earlier time first is *)
(* an assumption on its Local (0.4.24 in Cargo.lock).                        *)
Earliest(times) == CHOOSE t \in times : \A u \in times : t <= u

Rfc3164Time(written, now) ==
  LET times == FromLocal(YearOf(now) * YearHours + written)
  IN IF times = {} THEN None ELSE Earliest(times)
=============================================================================
