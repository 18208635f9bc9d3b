------------------------------ MODULE ExecLoad ------------------------------
(***************************************************************************)
(* The exec load routine, IRXLOAD: LOAD reads a member of a PDS into an    *)
(* INSTBLK, FREE gives it back (src/src/irx#load.c), through one of two    *)
(* readers: stdio (irx#ldqs.c) or BPAM (irx#ldbp.c, asm/irxbpam.asm).      *)
(*                                                                         *)
(* levels holds who loads and runs an exec, the innermost last: a program  *)
(* that an exec calls can load and run an exec in the same environment.    *)
(***************************************************************************)
EXTENDS Integers, Sequences, SequencesExt

CONSTANTS
    SearchDDs,    \* the DDs of a search, in order: LOADDD, then SYSPROC under TSO
    SeqLen,       \* IRX_LD_SEQ_LEN, the columns of a sequence number
    InitLines,    \* IRXLOAD_INIT_LINES
    InitBytes,    \* IRXLOAD_INIT_SRCBYTES
    LineBuf,      \* LINE_BUF, the stdio reader's buffer
    Libraries,    \* what the DDs may hold of a member: functions from DDs
    MaxShort      \* bound: how often storage runs out

ASSUME LoadAssumption ==
    /\ Len(SearchDDs) \in Nat /\ SeqLen \in Nat /\ LineBuf \in Nat
    /\ InitLines \in Nat \ {0} /\ InitBytes \in Nat

VARIABLES
    library,      \* DD -> a member, NoDD, NoMember or Unreadable
    levels,
    held,         \* storage got and not given back: <<name, level>>
    shortages     \* how often storage has run out

loadvars == <<library, levels, held, shortages>>

-----------------------------------------------------------------------------
(* Members: a sequence of blocks.  A block of a V member has records       *)
(* [rdw, text] up to limit, any other has a text; or it cannot be read.    *)

Digit == "9"
Blank == " "
Newline == "n"

NoDD == [recfm |-> "nodd"]
NoMember == [recfm |-> "nomember"]
Unreadable == [recfm |-> "unreadable"]
HasMember(m) == m.recfm \in {"F", "V", "U"}
BlockError == [unread |-> TRUE]

Prefix == 4                               \* VB_PREFIX

AllDigits(text) == \A i \in DOMAIN text : text[i] = Digit

\* text up to its last character that is not in S.
TrimEnd(text, S) ==
    LET Kept(c) == c \notin S IN SubSeq(text, 1, SelectLastInSeq(text, Kept))

-----------------------------------------------------------------------------
(* Accumulating lines: irx_ld_acc.                                         *)

\* numbered is empty until the first record decides.
\* irx_ld_begin_member, and the tables irx_load_load gets.
NewAcc == [lt |-> <<>>, src |-> <<>>, ltcap |-> InitLines, srccap |-> InitBytes,
           numbered |-> {}]
BeginMember(acc) == [acc EXCEPT !.lt = <<>>, !.src = <<>>, !.numbered = {}]

\* first_record_numbered
FirstRecordNumbered(m, text) ==
    CASE m.recfm = "F" ->
           m.lrecl >= SeqLen /\ Len(text) = m.lrecl
           /\ AllDigits(SubSeq(text, m.lrecl - SeqLen + 1, m.lrecl))
      [] m.recfm = "V" -> Len(text) >= SeqLen /\ AllDigits(SubSeq(text, 1, SeqLen))
      [] OTHER -> FALSE

\* The part of a record that is the line, when the member is numbered or not.
Unnumbered(m, text) ==
    IF m.recfm = "F" THEN SubSeq(text, 1, Min({Len(text), m.lrecl - SeqLen}))
    ELSE SubSeq(text, SeqLen + 1, Len(text))

\* The mutant lets every record decide for itself.
NumberedEach(m, acc, text) == FirstRecordNumbered(m, text)

Numbered(m, acc, text) ==
    IF acc.numbered = {} THEN FirstRecordNumbered(m, text) ELSE TRUE \in acc.numbered

LineOf(m, numbered, record) ==
    LET text == TrimEnd(record, {Newline}) IN
    TrimEnd(IF numbered THEN Unnumbered(m, text) ELSE text, {Blank})

\* irx_ld_add_line: the capacities it needs, and what it adds.
LtNeeded(acc) == IF Len(acc.lt) >= acc.ltcap THEN 2 * acc.ltcap ELSE acc.ltcap
SrcNeeded(acc, n) ==
    LET total == Len(acc.src) + n IN
    IF total <= acc.srccap \/ n = 0 THEN acc.srccap
    ELSE IF 2 * acc.srccap < total THEN 2 * total ELSE 2 * acc.srccap
AddLine(acc, numbered, line) ==
    [acc EXCEPT !.numbered = {numbered},
                !.lt = Append(@, [offset |-> Len(acc.src), length |-> Len(line)]),
                !.src = @ \o line,
                !.ltcap = LtNeeded(acc), !.srccap = SrcNeeded(acc, Len(line))]

\* The lines an INSTBLK's entries point at.
Statements(block) ==
    [i \in DOMAIN block.lt |->
        SubSeq(block.src, block.lt[i].offset + 1, block.lt[i].offset + block.lt[i].length)]

-----------------------------------------------------------------------------
(* deblock: the records of a block, if it is well formed.                  *)

\* The offset of record i in a V block: after the BDW and the records before.
RecordAt(records, i) ==
    SumFunctionOnSet([j \in DOMAIN records |-> records[j].rdw], 1 .. i - 1) + Prefix

\* The records that begin before the limit: what the BDW says or what was read,
\* whichever is less.
Seen(block) ==
    {i \in DOMAIN block.records : RecordAt(block.records, i) + Prefix <= block.limit}

WellFormed(m, block) ==
    CASE block = BlockError -> FALSE
      [] block # BlockError /\ m.recfm = "F" -> m.lrecl > 0 /\ Len(block.text) % m.lrecl = 0
      [] block # BlockError /\ m.recfm = "V" ->
           \A i \in Seen(block) :
              LET r == block.records[i] IN
              r.rdw >= Prefix /\ RecordAt(block.records, i) + r.rdw <= block.limit
      [] OTHER -> TRUE

Deblock(m, block) ==
    CASE m.recfm = "F" -> [i \in 1 .. (Len(block.text) \div m.lrecl) |->
                              SubSeq(block.text, (i - 1) * m.lrecl + 1, i * m.lrecl)]
      [] m.recfm = "V" -> [i \in 1 .. Cardinality(Seen(block)) |-> block.records[i].text]
      [] OTHER -> <<block.text>>

\* What fgets makes of a line of a text file: pieces that fit its buffer.
FgetsPieces(text) ==
    LET line == text \o <<Newline>>
        size == LineBuf - 1
        count == (Len(line) + size - 1) \div size IN
    [i \in 1 .. count |-> SubSeq(line, (i - 1) * size + 1, IF i = count THEN Len(line) ELSE i * size)]

-----------------------------------------------------------------------------
(* The innermost level, and storage.                                       *)

Depth == Len(levels)
Top == levels[Depth]
At(step) == levels # <<>> /\ Top.step = step
\* A level with some of its fields set.
Overlay(fields, level) ==
    [f \in DOMAIN fields \cup DOMAIN level |->
        IF f \in DOMAIN fields THEN fields[f] ELSE level[f]]
Update(fields) == levels' = [levels EXCEPT ![Depth] = Overlay(fields, @)]
GoTo(step) == Update([step |-> step])

Mine(names) == {<<name, Depth>> : name \in names}
Got(names) == held' = held \cup Mine(names) /\ UNCHANGED shortages
Freed(names) == held' = held \ Mine(names) /\ UNCHANGED shortages

\* Storage runs out, and what the error path gives back.
Short(names) ==
    /\ shortages < MaxShort
    /\ shortages' = shortages + 1
    /\ held' = held \ Mine(names)

Unloaded(rc) == [step |-> "loaded", loadrc |-> rc]
Tables == {"lt", "tsrc"}

\* irx_load_load gets its two tables; a shortage goes the way of "not found".
LoadBegin ==
    /\ At("load")
    /\ \/ Got(Tables) /\ Update([step |-> "search", acc |-> NewAcc, dd |-> 1])
       \/ Short(Tables) /\ Update(Unloaded("NOTFOUND"))
    /\ UNCHANGED library

Here == library[SearchDDs[Top.dd]]

LoadNotFound ==
    /\ At("search") /\ Top.dd > Len(SearchDDs)
    /\ Freed(Tables) /\ Update(Unloaded("NOTFOUND"))
    /\ UNCHANGED library

Reading(m) == [step |-> "read", acc |-> BeginMember(Top.acc), blocks |-> m.blocks]

\* fopen of DD:dd(member).
LoadFopen ==
    /\ At("search") /\ Top.dd <= Len(SearchDDs) /\ Top.reader = "stdio"
    /\ IF HasMember(Here) THEN Update(Reading(Here)) ELSE Update([dd |-> Top.dd + 1])
    /\ UNCHANGED <<library, held, shortages>>

\* OPEN, FIND and the READ buffer; CLOSE on every way out.
LoadOpen ==
    /\ At("search") /\ Top.dd <= Len(SearchDDs) /\ Top.reader = "bpam"
    /\ \/ /\ HasMember(Here)
          /\ Got({"bpam", "buf", "open"}) /\ Update(Reading(Here))
       \/ /\ Here \in {NoDD, NoMember}
          /\ Update([dd |-> Top.dd + 1]) /\ UNCHANGED <<held, shortages>>
       \/ /\ Here = Unreadable
          /\ Freed(Tables) /\ Update(Unloaded("ERROR"))
       \/ Short(Tables) /\ Update(Unloaded("NOMEM"))
    /\ UNCHANGED library

Reader == {"bpam", "buf", "open"}

NextBlock(records) ==
    Update([step |-> "line", blocks |-> Tail(Top.blocks), records |-> records])

\* READ and CHECK of one block.
LoadBlock ==
    /\ At("read") /\ Top.blocks # <<>> /\ Top.reader = "bpam"
    /\ IF WellFormed(Here, Head(Top.blocks))
       THEN NextBlock(Deblock(Here, Head(Top.blocks))) /\ UNCHANGED <<held, shortages>>
       ELSE Freed(Reader \cup Tables) /\ Update(Unloaded("ERROR"))
    /\ UNCHANGED library

Pieces(records) == FlattenSeq([i \in DOMAIN records |-> FgetsPieces(records[i])])

\* fgets until it answers NULL: at the end, and when a block cannot be read.
LoadFgets ==
    /\ At("read") /\ Top.blocks # <<>> /\ Top.reader = "stdio"
    /\ IF WellFormed(Here, Head(Top.blocks))
       THEN NextBlock(Pieces(Deblock(Here, Head(Top.blocks))))
       ELSE Update([blocks |-> <<>>])
    /\ UNCHANGED <<library, held, shortages>>

\* irx_ld_add_line
LoadLine ==
    /\ At("line")
    /\ IF Top.records = <<>> THEN GoTo("read") /\ UNCHANGED <<held, shortages>>
       ELSE LET record == Head(Top.records)
                numbered == Numbered(Here, Top.acc, TrimEnd(record, {Newline}))
                acc == AddLine(Top.acc, numbered, LineOf(Here, numbered, record))
                grows == acc.ltcap # Top.acc.ltcap \/ acc.srccap # Top.acc.srccap IN
            \/ /\ Update([acc |-> acc, records |-> Tail(Top.records)])
               /\ UNCHANGED <<held, shortages>>
            \/ /\ grows
               /\ Short(Reader \cup Tables) /\ Update(Unloaded("NOMEM"))
    /\ UNCHANGED library

\* The end of the member: CLOSE, and build_instblk.
LoadBuild ==
    /\ At("read") /\ Top.blocks = <<>>
    /\ \/ /\ held' = (held \ Mine(Reader \cup Tables)) \cup Mine({"hdr", "pool"})
          /\ UNCHANGED shortages
          /\ Update([step |-> "loaded", loadrc |-> "OK",
                     instblk |-> [dd |-> Top.dd, lt |-> Top.acc.lt, src |-> Top.acc.src]])
       \/ Short(Reader \cup Tables) /\ Update(Unloaded("NOMEM"))
    /\ UNCHANGED library

LoadNext ==
    \/ LoadBegin \/ LoadNotFound \/ LoadFopen \/ LoadOpen
    \/ LoadBlock \/ LoadFgets \/ LoadLine \/ LoadBuild

\* irx_load_free
FreeInstblk == held' = held \ Mine({"hdr", "pool"})

-----------------------------------------------------------------------------
(* What a load promises.                                                   *)

\* The lines of a member: its records without sequence numbers, if its first
\* record has one, and without the blanks at their end.
RecordsOf(m) == FlattenSeq([b \in DOMAIN m.blocks |-> Deblock(m, m.blocks[b])])
Intact(m) == \A b \in DOMAIN m.blocks : WellFormed(m, m.blocks[b])
WithoutBlanks(text) ==
    CHOOSE p \in Prefixes(text) :
       /\ p = <<>> \/ p[Len(p)] # Blank
       /\ \A i \in Len(p) + 1 .. Len(text) : text[i] = Blank
Promised(m) ==
    LET records == RecordsOf(m)
        numbered == records # <<>> /\ FirstRecordNumbered(m, records[1])
        Text(r) == IF numbered THEN Unnumbered(m, r) ELSE r IN
    [i \in DOMAIN records |-> WithoutBlanks(Text(records[i]))]

\* What is loaded is the member of the first DD of the search that has it, each
\* of its records one line, whichever reader is linked and however often the
\* tables had to grow.  (Of a member that the stdio reader cannot read to its
\* end it loads the beginning.)
LoadedAsPromised ==
    \A n \in DOMAIN levels :
       LET l == levels[n] IN
       l.step = "loaded" /\ l.loadrc = "OK" =>
          /\ LET m == library[SearchDDs[l.instblk.dd]] IN
             IF Intact(m) THEN Statements(l.instblk) = Promised(m) ELSE l.reader = "stdio"
          /\ \A d \in 1 .. l.instblk.dd - 1 : ~HasMember(library[SearchDDs[d]])

\* The members the promise is about for every library: their blocks hold lines
\* over C that do not end with a newline and fit the buffer of the stdio reader,
\* which makes two lines of a longer one.
LineText(C) == {t \in Seq(C) : Len(t) + 1 < LineBuf /\ (t # <<>> => t[Len(t)] # Newline)}
Readable(m, C) ==
    HasMember(m) =>
        /\ m.blocks \in Seq(Range(m.blocks))
        /\ m.recfm = "F" => m.lrecl \in Nat
        /\ \A b \in DOMAIN m.blocks :
              WellFormed(m, m.blocks[b]) => Deblock(m, m.blocks[b]) \in Seq(LineText(C))
MembersReadable(C) ==
    \A lib \in Libraries : \A d \in 1 .. Len(SearchDDs) : Readable(lib[SearchDDs[d]], C)

\* The tables of a load never hold more than their storage, and no line leaves
\* the text: what irx_ld_add_line gets is always enough for what it adds.
Fits(acc) ==
    /\ Len(acc.lt) <= acc.ltcap /\ Len(acc.src) <= acc.srccap
    /\ \A i \in 1 .. Len(acc.lt) : acc.lt[i].offset + acc.lt[i].length <= Len(acc.src)
TablesFit == levels # <<>> /\ Top.step \in {"search", "read", "line"} => Fits(Top.acc)
=============================================================================
