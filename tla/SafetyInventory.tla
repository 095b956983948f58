--------------------------- MODULE SafetyInventory ---------------------------
(***************************************************************************)
(* scripts/safety-inventory.py: every escape hatch in a source file is     *)
(* filed under the function it is in, and a rule must cover it there.      *)
(* Which function a line is in is worked out from the headers and from the *)
(* braces counted so far.                                                  *)
(*                                                                         *)
(* A line is [head, name, toks, literals, tail].  head is what the line    *)
(* begins: a function, a "proto"type, which has no body, a test or none of *)
(* them.  toks is what the scan tells apart in its text: the hatches, a    *)
(* "cast", a "wrap" or a "forbidden" one, the braces that "open" and       *)
(* "close" a block, the "//" of a comment, the quotes of a "string" or a   *)
(* "character", the backslashes a line of a "multiline" string starts      *)
(* with.  literals and tail are how the compiler reads it: the first and   *)
(* the last place of each literal, and where a comment or a multiline      *)
(* string begins, which is after the line's end if it has neither.         *)
(***************************************************************************)
EXTENDS Integers, FiniteSets, SequencesExt

CONSTANTS
  Lines,        \* those a file is made of
  FileLength,   \* bound on the lines of a file
  Ruled         \* the pairs of a function and a hatch that a rule covers

Hatches == {"cast", "wrap", "forbidden"}
Quotes  == {"string", "character"}
Texts   == Hatches \union Quotes \union {"open", "close", "//", "multiline"}

(* What compiles: a literal ends with the quote it begins with and does not
   hold it, and no quote or comment stands between the literals. *)
ZigLine(l) ==
  /\ l.toks \in Seq(Texts)
  /\ l.literals \subseteq (1 .. Len(l.toks)) \X (1 .. Len(l.toks))
  /\ l.tail \in 1 .. Len(l.toks) + 1
  /\ l.tail <= Len(l.toks) => l.toks[l.tail] = "//" \/ (l.tail = 1 /\ l.toks[1] = "multiline")
  /\ \A p \in l.literals :
       /\ p[1] < p[2] /\ p[2] < l.tail
       /\ l.toks[p[1]] \in Quotes /\ l.toks[p[2]] = l.toks[p[1]]
       /\ \A n \in 1 .. Len(l.toks) : p[1] < n /\ n < p[2] => l.toks[n] # l.toks[p[1]]
       /\ \A q \in l.literals : q = p \/ q[2] < p[1] \/ p[2] < q[1]
  /\ \A n \in 1 .. Len(l.toks) :
       n < l.tail /\ (\A p \in l.literals : n < p[1] \/ p[2] < n)
         => l.toks[n] \notin Quotes \union {"//", "multiline"}

(* A rule that covers the file's own level is one for "*". *)
ASSUME InventoryAssumption ==
  /\ FileLength \in Nat
  /\ \A l \in Lines : l.head \in {"fn", "proto", "test", "other"} /\ ZigLine(l)
  /\ \A op \in Hatches :
       <<"", op>> \in Ruled => \A l \in Lines : <<l.name, op>> \in Ruled

VARIABLES
  inventoryPc,   \* "idle", "scan", "clean" or "failed"
  scan,          \* what enclosing_functions and scan_text keep
  nest,          \* ghost: the blocks that are open, and the header that awaits its own
  skewed,        \* ghost: some literal held more braces of one kind
  inCode,        \* ghost: the hatches of the code
  inventory      \* on disk: "missing", "current" or "stale"

inventoryVars == <<inventoryPc, scan, nest, skewed, inCode, inventory>>

Fn(h, n)  == [head |-> h, name |-> n]
FileScope == Fn("other", "")

(* What the scan calls a header's line: a prototype is a function to it. *)
Header(line) == Fn(IF line.head = "test" THEN "test" ELSE "fn", line.name)

Fresh == [read |-> 0, current |-> FileScope, depth |-> 0, pending |-> FileScope, filed |-> {}]

Count(toks, places, t) == Cardinality({n \in places : toks[n] = t})

(* strip_comments: the literal it is in, or the comment, after a token more
   and after n of them. *)
Past(within, t) ==
  IF within = "" THEN IF t \in Quotes \union {"//"} THEN t ELSE ""
  ELSE IF within = t /\ t # "//" THEN ""
  ELSE within

Within(toks) ==
  LET w[n \in 0 .. Len(toks)] == IF n = 0 THEN "" ELSE Past(w[n - 1], toks[n])
  IN w

Stripped(toks) ==
  IF toks # <<>> /\ toks[1] = "multiline" THEN DOMAIN toks
  ELSE {n \in DOMAIN toks : Within(toks)[n] # "//"}

Hits(line, t) == Count(line.toks, Stripped(line.toks), t)

(* A slip: a function goes on to the next. *)
EnclosingToTheNext(s, line) ==
  LET pending == IF line.head # "other" THEN Header(line) ELSE s.pending
      begins  == pending # FileScope /\ Hits(line, "open") > 0
  IN [s EXCEPT !.current = IF begins THEN pending ELSE @,
               !.pending = IF begins THEN FileScope ELSE pending,
               !.depth   = @ + Hits(line, "open") - Hits(line, "close")]

(* A slip: the header that waits is not overwritten, were it a prototype. *)
EnclosingTheFirst(s, line) ==
  LET named   == line.head # "other"
      pending == IF named /\ s.pending = FileScope THEN Header(line) ELSE s.pending
      begins  == pending # FileScope /\ Hits(line, "open") > 0
      depth   == s.depth + Hits(line, "open") - Hits(line, "close")
      out     == depth <= 0 /\ ~named
  IN [s EXCEPT !.current = IF out THEN FileScope ELSE IF begins THEN pending ELSE @,
               !.pending = IF begins THEN FileScope ELSE pending,
               !.depth   = IF out THEN 0 ELSE depth]

(* One turn of the loop of enclosing_functions.  The last header waits for a
   brace, a prototype as any other; a line that brings the depth back to zero
   is itself outside. *)
Enclosing(s, line) ==
  LET named   == line.head # "other"
      pending == IF named THEN Header(line) ELSE s.pending
      begins  == pending # FileScope /\ Hits(line, "open") > 0
      depth   == s.depth + Hits(line, "open") - Hits(line, "close")
      out     == depth <= 0 /\ ~named
  IN [s EXCEPT !.current = IF out THEN FileScope ELSE IF begins THEN pending ELSE @,
               !.pending = IF begins THEN FileScope ELSE pending,
               !.depth   = IF out THEN 0 ELSE depth]

(* scan_text, line by line: each occurrence has an entry. *)
ScanLine(s, line) ==
  LET next == Enclosing(s, line)
  IN [next EXCEPT !.read  = @ + 1,
                  !.filed = @ \union
        {[fn |-> next.current, op |-> op, line |-> s.read + 1, hits |-> Hits(line, op)] :
           op \in {h \in Hatches : Hits(line, h) > 0}}]

(* find_rule, and the category of an entry. *)
Category(fn, op) ==
  IF fn.head = "test" THEN "test-only"
  ELSE IF <<fn.name, op>> \in Ruled THEN "ruled" ELSE "unclassified"

-----------------------------------------------------------------------------
(* SELF_TEST_CASES, those about what is told apart here. *)
Line(h, n, t, literals, tail) ==
  [head |-> h, name |-> n, toks |-> t, literals |-> literals, tail |-> tail]
AllCode(h, n, t)  == Line(h, n, t, {}, Len(t) + 1)
Bare(t)         == AllCode("other", "", t)
ScanText(lines) == FoldLeft(ScanLine, Fresh, lines).filed
In(h, n, l)     == ScanText(<<AllCode(h, n, <<"open">>), l, Bare(<<"close">>)>>)

SelfTestPasses ==
  /\ \E e \in In("fn", "f", Bare(<<"forbidden">>)) : e.op = "forbidden"
  /\ \E e \in In("fn", "brandNewHelper", Bare(<<"cast">>)) : Category(e.fn, e.op) = "unclassified"
  /\ In("fn", "f", Line("other", "", <<"//", "cast">>, {}, 1)) = {}
  /\ \E e \in In("fn", "f", Line("other", "", <<"string", "//", "string", "cast">>, {<<1, 3>>}, 5)) :
       e.op = "cast"
  /\ \E e \in In("fn", "cMalloc", Bare(<<"cast">>)) :
       e.fn.name = "cMalloc" /\ Category(e.fn, e.op) = "ruled"
  /\ \A e \in In("test", "something", Bare(<<"cast">>)) : Category(e.fn, e.op) = "test-only"
  /\ \E e \in ScanText(<<AllCode("test", "t", <<"open">>), Bare(<<"close">>),
                         AllCode("fn", "cMalloc", <<"open">>), Bare(<<"cast">>)>>) :
       Category(e.fn, e.op) = "ruled"
  /\ \E e \in In("fn", "f", Bare(<<"cast", "cast">>)) : e.hits = 2

-----------------------------------------------------------------------------
(* How many blocks are open, the function whose body is one of them and at
   what level it began, and the header that has yet to open its own, which a
   prototype never does. *)
Closed == [level |-> 0, fn |-> FileScope, at |-> 0, awaiting |-> FileScope]

Nested(s, t) ==
  IF t = "open" THEN
    IF s.awaiting = FileScope THEN [s EXCEPT !.level = @ + 1]
    ELSE [level |-> s.level + 1, fn |-> s.awaiting, at |-> s.level, awaiting |-> FileScope]
  ELSE IF t = "close" THEN
    IF s.level - 1 = s.at THEN [s EXCEPT !.level = @ - 1, !.fn = FileScope, !.at = 0]
    ELSE [s EXCEPT !.level = @ - 1]
  ELSE s

InventoryInit ==
  /\ inventoryPc = "idle"
  /\ scan = Fresh
  /\ nest = Closed /\ skewed = FALSE /\ inCode = {}
  /\ inventory \in {"missing", "current", "stale"}

(* safety-scan.sh runs the self-test first. *)
StartScan ==
  /\ inventoryPc = "idle"
  /\ inventoryPc' = IF SelfTestPasses THEN "scan" ELSE "failed"
  /\ UNCHANGED <<scan, nest, skewed, inCode, inventory>>

(* The places of a line's code, and the blocks after each. *)
Code(line) == {n \in 1 .. line.tail - 1 : \A p \in line.literals : n < p[1] \/ p[2] < n}

Blocks(line) ==
  LET b[n \in 0 .. Len(line.toks)] ==
        IF n = 0 THEN IF line.head \in {"fn", "test"}
                      THEN [nest EXCEPT !.awaiting = Fn(line.head, line.name)] ELSE nest
        ELSE IF n \in Code(line) THEN Nested(b[n - 1], line.toks[n])
        ELSE b[n - 1]
  IN b

(* A hatch: the body it is in, whether it is at the file's own level, on a
   line that has no header and waits for no brace, and whether that line
   leaves no block open. *)
Compile(line) ==
  LET b == Blocks(line)
  IN {[fn |-> b[n].fn, op |-> line.toks[n], line |-> scan.read + 1,
       hits |-> Count(line.toks, Code(line), line.toks[n]),
       outside |-> line.head = "other" /\ b[n].awaiting = FileScope /\ b[n].level = 0,
       whole |-> b[Len(line.toks)].level = 0] :
        n \in {m \in Code(line) : line.toks[m] \in Hatches}}

Unbalanced(line) ==
  Hits(line, "open") - Hits(line, "close")
    # Count(line.toks, Code(line), "open") - Count(line.toks, Code(line), "close")

(* No header and no prototype stands in the body of a function, which the
   sources' own never do, nor before its brace, where the compiler takes none,
   and no block ends that was not begun. *)
Fits(line) ==
  /\ line.head # "other" => nest.fn = FileScope /\ nest.awaiting = FileScope
  /\ \A n \in 0 .. Len(line.toks) : Blocks(line)[n].level >= 0

ReadLine ==
  /\ inventoryPc = "scan" /\ scan.read < FileLength
  /\ \E line \in Lines :
       /\ Fits(line)
       /\ scan' = ScanLine(scan, line)
       /\ nest' = Blocks(line)[Len(line.toks)]
       /\ inCode' = inCode \union Compile(line)
       /\ skewed' = (skewed \/ Unbalanced(line))
  /\ UNCHANGED <<inventoryPc, inventory>>

Unclassified == {e \in scan.filed : Category(e.fn, e.op) = "unclassified"}
Forbidden    == {e \in scan.filed : e.op = "forbidden"}

(* main.  With --check the inventory on disk must be the one found; without,
   it is written, whatever the verdict. *)
FileInventory ==
  /\ inventoryPc = "scan" /\ nest = Closed
  /\ \E check \in BOOLEAN :
       /\ inventory' = IF check THEN inventory ELSE "current"
       /\ inventoryPc' = IF (check => inventory = "current") /\ Forbidden = {} /\ Unclassified = {}
                           THEN "clean" ELSE "failed"
  /\ UNCHANGED <<scan, nest, skewed, inCode>>

InventoryNext == StartScan \/ ReadLine \/ FileInventory

InventorySpec == InventoryInit /\ [][InventoryNext]_inventoryVars

-----------------------------------------------------------------------------
(***************************************************************************)
(* A clean inventory is that of the tree and has every hatch the compiler  *)
(* sees, on its line: none lost to a comment that is not one, none         *)
(* forbidden.  Each in the body of a function or of a test is in a test or *)
(* has a rule for that function and that hatch, whatever the literals hold *)
(* and whatever prototypes stand before it: it is never excused by         *)
(* another's.  The scan counts the braces of literals with the others, and *)
(* takes what follows a method, or the block that follows a prototype, for *)
(* a part of it, so a hatch outside the bodies is known to have a rule of  *)
(* its own only on a line that starts and ends at the file's own level,    *)
(* where the literals so far balance.                                      *)
(***************************************************************************)
InventoryIsComplete ==
  inventoryPc = "clean" =>
    /\ inventory = "current"
    /\ \A h \in inCode :
         /\ h.op # "forbidden"
         /\ \E e \in scan.filed : e.op = h.op /\ e.line = h.line /\ e.hits >= h.hits
         /\ h.fn # FileScope \/ (~skewed /\ h.outside /\ h.whole)
              => Category(h.fn, h.op) # "unclassified"
=============================================================================
