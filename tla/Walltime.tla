---- MODULE Walltime ----
(***************************************************************************)
(* Wall-time requests (walltime.py).  A literal is the reading of a %time  *)
(* text by the regular expressions of parse_walltime: its form and its     *)
(* numbers, 0 where the text leaves one out.                               *)
(***************************************************************************)
EXTENDS Integers

CONSTANTS
  MaxWalltime,  \* MAX_WALLTIME_SECONDS
  None          \* no request: the site's default applies

ASSUME MaxWalltimeAssumption == MaxWalltime \in Nat /\ None \notin Int

(* "bare": seconds.  "clock": HH:MM:SS.  "dated": D-HH:MM:SS.  "units": a  *)
(* sequence of d, h, m and s counts.                                       *)
Form == {"bare", "clock", "dated", "units"}
Literal == [form : Form, d : Nat, h : Nat, m : Nat, s : Nat]

(* The texts that are refused whatever they amount to: a clock's minutes   *)
(* and seconds have two digits below 60, its hours are those of a day when *)
(* it counts days.                                                         *)
WellFormed(l) ==
  /\ l.form \in {"clock", "dated"} => l.m < 60 /\ l.s < 60
  /\ l.form = "dated" => l.h < 24

(* parse_walltime, and validate_walltime of its result.                    *)
Seconds(l) == 86400 * l.d + 3600 * l.h + 60 * l.m + l.s
ValidSeconds(n) == n \in 1 .. MaxWalltime
Accepted(l) == WellFormed(l) /\ ValidSeconds(Seconds(l))

(* effective_walltime                                                      *)
EffectiveWalltime(task, default) == IF task # None THEN task ELSE default

(* Mutant: Slurm's days are split off without taking their hours away.     *)
FormatWalltime_WholeHours(n, slurm) ==
  LET hours == n \div 3600
      dated == slurm /\ hours >= 24
  IN  [form |-> IF dated THEN "dated" ELSE "clock",
       d |-> IF dated THEN hours \div 24 ELSE 0,
       h |-> hours,
       m |-> (n % 3600) \div 60,
       s |-> n % 60]

(* format_walltime: the request as Slurm reads it, or as PBS does.         *)
FormatWalltime(n, slurm) ==
  LET hours == n \div 3600
      dated == slurm /\ hours >= 24
  IN  [form |-> IF dated THEN "dated" ELSE "clock",
       d |-> IF dated THEN hours \div 24 ELSE 0,
       h |-> IF dated THEN hours % 24 ELSE hours,
       m |-> (n % 3600) \div 60,
       s |-> (n % 3600) % 60]

(* The author's amount reaches the scheduler: what is written in a job     *)
(* script, read again by the rules of %time, is the number of seconds it   *)
(* was written for.                                                        *)
ReadsBack(n) ==
  \A slurm \in BOOLEAN :
    LET l == FormatWalltime(n, slurm) IN WellFormed(l) /\ Seconds(l) = n
====
