----------------------------- MODULE PortalRecent -----------------------------
(***************************************************************************)
(* The recent records of client/portal/server.py: handler threads of       *)
(* record_get and file_metadata put what they looked at into one list,     *)
(* with no lock.  Threads switch at calls, so the test and the insertion   *)
(* are one step, the cut is another, and the copy for the answer a third.  *)
(***************************************************************************)
EXTENDS Naturals, Sequences, SequencesExt, FiniteSetsExt

CONSTANTS
  Viewers,   \* the portal's handler threads
  Records,    \* record and file ids
  Limit,      \* 20
  MaxUses,    \* bound on the number of requests
  NoRecord

ASSUME RecentAssumption == Limit \in Nat \ {0} /\ MaxUses \in Nat /\ NoRecord \notin Records

VARIABLES
  recent,    \* _recent
  stage,     \* where each handler is: free, cut, copy
  record,    \* its record_id
  answer,    \* the list in its last answer
  used,      \* history: every record asked for, the latest first
  since      \* history: for each record that was ever inserted, the others
             \* asked for since it last was

recentVars == <<recent, stage, record, answer, used, since>>

RecentInit ==
  /\ recent = <<>>
  /\ stage = [h \in Viewers |-> "free"]
  /\ record = [h \in Viewers |-> NoRecord]
  /\ answer = [h \in Viewers |-> <<>>]
  /\ used = <<>>
  /\ since = [r \in {} |-> {}]

\* Mutant of Known: the list is not looked through.
KnownNot(r) == r \notin Records

Known(r) == r \in Range(recent)

\* The history when r is asked for.
Note(r) ==
  /\ used' = <<r>> \o used
  /\ since' = [x \in DOMAIN since \cup {r} |->
                 IF x # r THEN since[x] \cup {r}
                 ELSE IF Known(r) THEN since[r] ELSE {}]

\* The host has answered the request for r.
Insert(h, r) ==
  /\ stage[h] = "free" /\ Len(used) < MaxUses
  /\ record' = [record EXCEPT ![h] = r]
  /\ Note(r)
  /\ IF Known(r)
       THEN /\ stage' = [stage EXCEPT ![h] = "copy"]
            /\ UNCHANGED recent
       ELSE /\ stage' = [stage EXCEPT ![h] = "cut"]
            /\ recent' = <<r>> \o recent
  /\ UNCHANGED answer

\* Mutant of Newest: the cut keeps the other end of the list, as it would of
\* one that is appended to.
NewestLast(s) == SubSeq(s, IF Len(s) < Limit THEN 1 ELSE Len(s) - Limit + 1, Len(s))

\* _recent[:20]
Newest(s) == SubSeq(s, 1, IF Len(s) < Limit THEN Len(s) ELSE Limit)

Cut(h) ==
  /\ stage[h] = "cut"
  /\ recent' = Newest(recent)
  /\ stage' = [stage EXCEPT ![h] = "copy"]
  /\ UNCHANGED <<record, answer, used, since>>

Copy(h) ==
  /\ stage[h] = "copy"
  /\ answer' = [answer EXCEPT ![h] = recent]
  /\ stage' = [stage EXCEPT ![h] = "free"]
  /\ UNCHANGED <<recent, record, used, since>>

RecentNext ==
  \E h \in Viewers : (\E r \in Records : Insert(h, r)) \/ Cut(h) \/ Copy(h)

RecentSpec == RecentInit /\ [][RecentNext]_recentVars

-----------------------------------------------------------------------------
Cutting == {h \in Viewers : stage[h] = "cut"}

\* However the handlers interleave, no record is listed twice.
RecentDistinct == IsInjective(recent)

\* No cut of one handler takes away what another has just inserted: what was
\* inserted stays until at least Limit others were asked for after it, in
\* whatever order a list of recent records keeps them; and the list is longer
\* than Limit only by those about to be cut.
KeptUntilDisplaced ==
  /\ \A r \in DOMAIN since : Known(r) \/ Cardinality(since[r]) >= Limit
  /\ Len(recent) <= Limit + Cardinality(Cutting)

(* What the repository says and the code does not keep *)

\* "recent (RAM-only MRU of 20)" (docs/client-portal.md:61): when nothing
\* was asked for since, the record asked for is the first of the list.
RecentIsMRU ==
  [][\A h \in Viewers :
       stage[h] = "copy" /\ stage'[h] = "free" /\ used[1] = record[h] =>
         answer'[h][1] = record[h]]_recentVars
=============================================================================
