------------------------------ MODULE PublicCopy ------------------------------
(***************************************************************************)
(* scripts/audit-public-copy.py: the figures of the three documents a      *)
(* reader sees are held against the values of the artifacts, and what may  *)
(* not be told in a document's channel is looked for in its text.          *)
(*                                                                         *)
(* A passage of a document is [where, says]: prose, the text or a command  *)
(* of a fenced block, or inline code, links and references ("marked");     *)
(* and a figure, or the subject of a claim.                                *)
(***************************************************************************)
EXTENDS Naturals, FiniteSets

CONSTANTS
  Documents,     \* document -> [channel, fenced]
  Figures,       \* that a text may give
  Reasoned,      \* those of PROSE_NUMBERS
  Identifiers,   \* those that are part of a platform's or a toolchain's name
  Ledger,        \* the claims: [subject, allowed, disclosed], sets of channels
  Marked,        \* the subjects of EMBARGO_MARKERS
  CopyMoves      \* bound: edits and measurements

ASSUME CopyAssumption ==
  /\ \A d \in DOMAIN Documents : Documents[d].fenced \in BOOLEAN
  /\ CopyMoves \in Nat

VARIABLES
  auditPc,     \* "idle", "audit"
  pages,       \* document -> its passages, where it exists
  measured,    \* the values in the artifacts of measurements
  ownReport,   \* the values in the audit's own artifact
  corpus,      \* artifact_corpus, read at the start
  audited, problems,
  auditExit,   \* of the last audit, while nothing changes
  copyMoves

copyVars == <<auditPc, pages, measured, ownReport, corpus, audited, problems,
              auditExit, copyMoves>>

Where    == {"prose", "fenced", "command", "marked"}
Subjects == {c.subject : c \in Ledger}
Passages == [where : Where, says : Figures \union Subjects]

(* A document that is not there has no page. *)
CopyInit ==
  /\ auditPc = "idle"
  /\ pages = [d \in {} |-> {}]
  /\ measured = {} /\ ownReport = {} /\ corpus = {}
  /\ audited = {} /\ problems = {}
  /\ auditExit = "none" /\ copyMoves = 0

Moved ==
  /\ auditPc = "idle" /\ copyMoves < CopyMoves
  /\ copyMoves' = copyMoves + 1 /\ auditExit' = "none"
  /\ UNCHANGED <<auditPc, ownReport, corpus, audited, problems>>

WriteCopy ==
  /\ Moved
  /\ \E d \in DOMAIN Documents, p \in Passages :
       pages' = [e \in DOMAIN pages \union {d} |->
                   IF e = d THEN {p} ELSE pages[e]]
  /\ UNCHANGED measured

(* The targets that measure give new values. *)
Remeasure ==
  /\ Moved
  /\ measured' \in SUBSET Figures
  /\ UNCHANGED pages

StartAudit ==
  /\ auditPc = "idle"
  /\ auditPc' = "audit"
  /\ corpus' = measured \union ownReport /\ auditExit' = "none"
  /\ UNCHANGED <<pages, measured, ownReport, audited, problems, copyMoves>>

SaidIn(d, places) == {p.says : p \in {q \in pages[d] : q.where \in places}}

(* A slip, and once the code: a fenced block is a command. *)
NumbersUnfenced(d) == SaidIn(d, {"prose"}) \intersect (Figures \ Identifiers)

(* numbers_in: identifiers go first, then blocks or the commands in them,
   then inline code, link targets and references. *)
NumbersIn(d) ==
  SaidIn(d, IF Documents[d].fenced THEN {"prose", "fenced"} ELSE {"prose"})
  \intersect (Figures \ Identifiers)

Unbacked(d) == NumbersIn(d) \ (Reasoned \union corpus)

(* A claim with no marker is not looked for. *)
BarredIn(d) ==
  LET barred == {c \in Ledger : Documents[d].channel \notin c.allowed \union c.disclosed}
  IN {c.subject : c \in barred} \intersect Marked \intersect SaidIn(d, Where)

AuditDocument ==
  /\ auditPc = "audit"
  /\ \E d \in DOMAIN Documents \ audited :
       /\ audited' = audited \union {d}
       /\ problems' = problems \union
            IF d \in DOMAIN pages THEN {<<d, n>> : n \in Unbacked(d) \union BarredIn(d)}
                                  ELSE {<<d, "missing">>}
  /\ UNCHANGED <<auditPc, pages, measured, ownReport, corpus, auditExit, copyMoves>>

(* The report holds how many figures and problems there were, numbers like
   any other to the next audit. *)
FinishAudit ==
  /\ auditPc = "audit" /\ audited = DOMAIN Documents
  /\ ownReport' \in {{n} : n \in Figures}
  /\ auditExit' = IF problems = {} THEN "clean" ELSE "failed"
  /\ auditPc' = "idle" /\ audited' = {} /\ problems' = {}
  /\ UNCHANGED <<pages, measured, corpus, copyMoves>>

CopyNext == WriteCopy \/ Remeasure \/ StartAudit \/ AuditDocument \/ FinishAudit

CopySpec == CopyInit /\ [][CopyNext]_copyVars

-----------------------------------------------------------------------------
(***************************************************************************)
(* What a reader of the copy takes for a claim is backed: every document   *)
(* is there, and a figure in its prose, or in a block that is the text of  *)
(* the submission, is a present measurement, a figure with a reason or     *)
(* part of a name, or else one the audit itself had counted before; and    *)
(* nothing with a marker is told where it may not be.                      *)
(***************************************************************************)
CopyIsBacked ==
  auditExit = "clean" =>
    /\ DOMAIN pages = DOMAIN Documents
    /\ \A d \in DOMAIN pages : \A p \in pages[d] :
         /\ /\ p.says \in Figures
            /\ p.where = "prose" \/ (p.where = "fenced" /\ Documents[d].fenced)
            => p.says \in measured \union Reasoned \union Identifiers \union (corpus \ measured)
         /\ p.says \in Subjects \intersect Marked =>
              \E c \in Ledger : /\ c.subject = p.says
                                /\ Documents[d].channel \in c.allowed \union c.disclosed
=============================================================================
