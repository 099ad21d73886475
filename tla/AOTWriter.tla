----------------------------- MODULE AOTWriter -----------------------------
(***************************************************************************)
(* Writing an AOT file (lib/AOTFileWriter) and what reading it back finds. *)
(*                                                                         *)
(* The driver allocates AOT_File::how_many_bytes bytes and the writers     *)
(* fill them with five areas, each behind a cursor of its own: the header, *)
(* the segment table, the names, the TB table, the relocation table, the   *)
(* code.  TBs refer to their relocations by index (rel_start_index,        *)
(* rel_end_index) into the one table of the file; a counter that lives as  *)
(* long as the process numbers them.                                       *)
(*                                                                         *)
(* A file is a sequence of segments, a segment a sequence of TBs, and a TB *)
(* its number of instructions and the validity of its relocations: what an *)
(* object holds is no matter, only where it ends up.  Of a name it matters *)
(* how long it is: it has an area of PATH_MAX bytes to itself, of which    *)
(* only its characters and a NUL are written.                              *)
(*                                                                         *)
(* A definition introduced as a slip is the one after it with a bug a      *)
(* programmer could make; nothing uses it.                                 *)
(***************************************************************************)
EXTENDS Integers, SequencesExt

CONSTANTS
    HeaderSize, SegmentSize, NameSize, TBSize, RelSize, InsnSize,  \* bytes
    SegmentData, \* the bytes of a segment's entry before its padding
    WordMax,   \* stands for 2^64 - 1, the largest u_int64_t
    Files      \* the files to write: their segments and lib_name's lengths

TBShape == [insns : Nat, rels : Seq(BOOLEAN)]

ASSUME SizesAssumption ==
    /\ {HeaderSize, SegmentSize, NameSize, TBSize, RelSize, InsnSize} \subseteq Nat \ {0}
    /\ SegmentData \in 1..SegmentSize

(* A name has been read from an area of this size, up to its NUL           *)
(* (aot_class.cpp:429-433).                                                *)
ASSUME FilesAssumption ==
    \A f \in Files :
        /\ f.segs \in Seq(Seq(TBShape)) \ {<<>>}
        /\ f.names \in [1..Len(f.segs) -> 0..NameSize - 1]

VARIABLES
    file,     \* the segments of the file
    names,    \* the length of each one's lib_name
    pc,       \* "names", "segment", "tbs" or "done"
    s,        \* the segment the loop is at
    k,        \* the TB the loop is at
    header,   \* the header's fields; Unset is whatever the memory held
    written,  \* the objects written and their places
    cursor,   \* SegmentsWriter's place in each area
    local,    \* TBWriter's place in the three areas a segment's TBs fill
    relCurIndex  \* the static rel_cur_index

vars == <<file, names, pc, s, k, header, written, cursor, local, relCurIndex>>

Unset == -1

Areas   == {"segment", "name", "tb", "rel", "code"}
TBAreas == {"tb", "rel", "code"}

-----------------------------------------------------------------------------
(* Sizes.                                                                  *)

(* The indices of a TB's valid relocations, in order.                      *)
ValidRels(tb) ==
    LET valid[n \in 0..Len(tb.rels)] ==
            IF n = 0 THEN <<>>
            ELSE IF tb.rels[n] THEN Append(valid[n - 1], n) ELSE valid[n - 1]
    IN  valid[Len(tb.rels)]

(* TB::how_many_rel, TB::how_many_code and their sums over a segment.      *)
HowManyRel(tb) == Len(ValidRels(tb))
HowManyCode(tb) == tb.insns * InsnSize

(* What the first numbers of a sequence, how many ever, add up to.         *)
Sums(q) == LET sum[n \in 0..Len(q)] == IF n = 0 THEN 0 ELSE sum[n - 1] + q[n] IN sum

SumOver(f(_), seq) == Sums([j \in DOMAIN seq |-> f(seq[j])])[Len(seq)]

SegRels(seg) == SumOver(HowManyRel, seg)
SegCode(seg) == SumOver(HowManyCode, seg)

(* A slip: invalid relocations are counted.                                *)
TBBytesWithAllRels(tb) == TBSize + tb.insns * InsnSize + Len(tb.rels) * RelSize

(* TB::, Segment:: and AOT_File::how_many_bytes                            *)
TBBytes(tb)   == TBSize + tb.insns * InsnSize + HowManyRel(tb) * RelSize
SegBytes(seg) == SegmentSize + NameSize + SumOver(TBBytes, seg)
FileBytes(f)  == HeaderSize + SumOver(SegBytes, f)

-----------------------------------------------------------------------------
(* Writing.                                                                *)

Object(area, at, size, of, fields) ==
    [area |-> area, at |-> at, size |-> size, of |-> of, fields |-> fields]

(* segments_name_begin, and where lib_name_offset leads.                   *)
Names     == HeaderSize + Len(file) * SegmentSize
NameAt(i) == Names + (i - 1) * NameSize

(* AOTFileWriter::write_to_buf, and SegmentsWriter::write_to_buf down to   *)
(* its first loop.  The object is the place of the header; which of its    *)
(* fields have been set, header says.                                      *)
Init ==
    /\ \E f \in Files : file = f.segs /\ names = f.names
    /\ pc = "names"
    /\ s = 1
    /\ k = 1
    /\ header = [segtab |-> HeaderSize, segnum |-> Len(file),
                 reltable |-> Unset, relnum |-> Unset]
    /\ written = {Object("header", 0, HeaderSize, <<>>, <<>>)}
    /\ cursor = [a \in Areas |-> IF a = "segment" THEN HeaderSize ELSE Names]
    /\ local = [a \in TBAreas |-> 0]
    /\ relCurIndex = 0

(* The first loop: one name per segment, its characters and a NUL.  The    *)
(* cursor passes the whole of its area.  After the last the cursors of the *)
(* tables and of the code are known.                                       *)
WriteName ==
    /\ pc = "names"
    /\ written' = written \cup {Object("name", cursor["name"], names[s] + 1, <<s>>, <<>>)}
    /\ IF s < Len(file)
       THEN /\ s' = s + 1
            /\ cursor' = [cursor EXCEPT !["name"] = @ + NameSize]
            /\ UNCHANGED pc
       ELSE LET tb   == cursor["name"] + NameSize
                rel  == tb + SumOver(Len, file) * TBSize
                code == rel + SumOver(SegRels, file) * RelSize
            IN  /\ cursor' = [cursor EXCEPT !["name"] = tb, !["tb"] = tb,
                                            !["rel"] = rel, !["code"] = code]
                /\ s' = 1
                /\ pc' = "segment"
    /\ UNCHANGED <<file, names, k, header, local, relCurIndex>>

(* The second loop: the members of the segment's entry, then its TBs.  The *)
(* name's place was recorded by the first loop.                            *)
WriteSegment ==
    /\ pc = "segment"
    /\ written' = written \cup
        {Object("segment", cursor["segment"], SegmentData, <<s>>,
                [name |-> NameAt(s),
                 tbs |-> cursor["tb"], num |-> Len(file[s])])}
    /\ local' = [a \in TBAreas |-> cursor[a]]
    /\ k' = 1
    /\ pc' = "tbs"
    /\ UNCHANGED <<file, names, s, header, cursor, relCurIndex>>

(* A slip: the end is one past the last.                                   *)
RelRangePastEnd(first, count) == [start |-> first, end |-> first + count]

(* TBWriter::handle_rels: any_valid starts as true, so the range is always *)
(* the one of the relocations written.                                     *)
RelRange(first, count) == [start |-> first, end |-> first + count - 1]

(* A slip: the entry pointer is not moved.                                 *)
PassTBSameEntry(places, tb) ==
    [places EXCEPT !["code"] = @ + HowManyCode(tb),
                   !["rel"]  = @ + HowManyRel(tb) * RelSize]

PassTB(places, tb) ==
    [places EXCEPT !["tb"]   = @ + TBSize,
                   !["code"] = @ + HowManyCode(tb),
                   !["rel"]  = @ + HowManyRel(tb) * RelSize]

(* TBWriter::write_to_buf, one round: the TB's entry, its code, and its    *)
(* valid relocations.  The first relocation of the file fixes the table.   *)
WriteTB ==
    LET tb    == file[s][k]
        valid == ValidRels(tb)
        range == RelRange(relCurIndex, Len(valid))
    IN  /\ pc = "tbs"
        /\ k <= Len(file[s])
        /\ written' = written
            \cup {Object("tb", local["tb"], TBSize, <<s, k>>,
                         [code |-> local["code"], size |-> HowManyCode(tb),
                          start |-> range.start, end |-> range.end])}
            \cup {Object("code", local["code"], HowManyCode(tb), <<s, k>>, <<>>)}
            \cup {Object("rel", local["rel"] + (j - 1) * RelSize, RelSize,
                         <<s, k, valid[j]>>, <<>>) : j \in DOMAIN valid}
        /\ header' = [header EXCEPT
                        !.reltable = IF relCurIndex = 0 /\ valid # <<>>
                                     THEN local["rel"] ELSE @]
        /\ local' = PassTB(local, tb)
        /\ relCurIndex' = relCurIndex + Len(valid)
        /\ k' = k + 1
        /\ UNCHANGED <<file, names, pc, s, cursor>>

(* A slip: the code cursor counts instructions, not bytes.                 *)
PassSegmentByInsns(places, seg) ==
    [places EXCEPT !["segment"] = @ + SegmentSize,
                   !["tb"]      = @ + Len(seg) * TBSize,
                   !["rel"]     = @ + SegRels(seg) * RelSize,
                   !["code"]    = @ + SumOver(LAMBDA tb : tb.insns, seg)]

PassSegment(places, seg) ==
    [places EXCEPT !["segment"] = @ + SegmentSize,
                   !["tb"]      = @ + Len(seg) * TBSize,
                   !["rel"]     = @ + SegRels(seg) * RelSize,
                   !["code"]    = @ + SegCode(seg)]

EndSegment ==
    /\ pc = "tbs"
    /\ k > Len(file[s])
    /\ header' = [header EXCEPT !.relnum = relCurIndex]
    /\ cursor' = PassSegment(cursor, file[s])
    /\ IF s < Len(file) THEN s' = s + 1 /\ pc' = "segment"
                        ELSE pc' = "done" /\ UNCHANGED s
    /\ UNCHANGED <<file, names, k, written, local, relCurIndex>>

Next == WriteName \/ WriteSegment \/ WriteTB \/ EndSegment

Spec == Init /\ [][Next]_vars

-----------------------------------------------------------------------------
(* Reading back: the constructors of AOT_File, Segment and TB follow the   *)
(* places written, and TB_AddRels_Vistor takes the relocations of a TB by  *)
(* index.                                                                  *)

Found(area, at) == {o \in written : o.area = area /\ o.at = at}

SegmentsRead == {o \in written : \E i \in 1..header.segnum :
                    o \in Found("segment", header.segtab + (i - 1) * SegmentSize)}

(* int32_t to u_int64_t.                                                   *)
Word(n) == IF n < 0 THEN WordMax + 1 + n ELSE n

(* The indices the loop of TB_AddRels_Vistor::visit reads for a TB entry.  *)
RelsRead(entry) == Word(entry.fields.start)..Word(entry.fields.end)

-----------------------------------------------------------------------------
(* Properties.                                                             *)

(* No object overwrites another, and none lies past the buffer the driver  *)
(* allocated: five cursors moved in three functions agree with the sum     *)
(* how_many_bytes computed on its own (aot_class.cpp:555-588).             *)
NothingOverwritten ==
    \A o \in written :
        /\ o.at + o.size <= FileBytes(file)
        /\ \A p \in written \ {o} : o.at + o.size <= p.at \/ p.at + p.size <= o.at

(* What the driver writes out without anyone having set it, since the      *)
(* buffer is not cleared (driver.cpp:99-101): exactly what is behind a     *)
(* name's NUL in its area (SegmentWriter.cpp:25-30), the padding of the    *)
(* segments' entries, and reltable_offset in a file without a valid        *)
(* relocation (TBWriter.cpp:25).  No byte of a TB, a relocation or code is *)
(* left out between the areas or at their end.                             *)
Untouched == {b \in 0..FileBytes(file) - 1 : ~ \E o \in written : o.at <= b /\ b < o.at + o.size}

BehindName(i) == NameAt(i) + names[i] + 1 .. NameAt(i) + NameSize - 1

SegAt(i)   == HeaderSize + (i - 1) * SegmentSize
Padding(i) == SegAt(i) + SegmentData .. SegAt(i) + SegmentSize - 1

OnlyGapsLeft ==
    pc = "done" =>
        /\ Untouched = UNION {BehindName(i) \cup Padding(i) : i \in DOMAIN file}
        /\ \A field \in DOMAIN header :
            header[field] = Unset <=> field = "reltable" /\ SumOver(SegRels, file) = 0

(* Following the places in the header and the tables, the reader finds     *)
(* every segment with its name, and every TB with its own code.            *)
ReadsBackBlocks ==
    pc = "done" =>
        /\ Cardinality(SegmentsRead) = Len(file)
        /\ \A seg \in SegmentsRead :
            /\ \E o \in Found("name", seg.fields.name) : o.of = seg.of
            /\ \A j \in 1..seg.fields.num :
                \E tb \in Found("tb", seg.fields.tbs + (j - 1) * TBSize) :
                    /\ tb.of = Append(seg.of, j)
                    /\ \E o \in Found("code", tb.fields.code) :
                        o.of = tb.of /\ o.size = tb.fields.size

(* A TB gets back exactly its valid relocations, in order, out of the one  *)
(* table all TBs share, if it or a TB before it has one.                   *)
Earlier(of) == {q \in {o.of : o \in {w \in written : w.area = "tb"}} :
                    q[1] < of[1] \/ (q[1] = of[1] /\ q[2] <= of[2])}

ReadsBackRels ==
    pc = "done" =>
        \A tb \in {o \in written : o.area = "tb"} :
            (\E q \in Earlier(tb.of) : HowManyRel(file[q[1]][q[2]]) > 0) =>
                LET valid == ValidRels(file[tb.of[1]][tb.of[2]]) IN
                /\ Cardinality(RelsRead(tb)) = Len(valid)
                /\ \A n \in RelsRead(tb) :
                    /\ n < header.relnum
                    /\ \E o \in Found("rel", header.reltable + n * RelSize) :
                        o.of = Append(tb.of, valid[n - tb.fields.start + 1])

(* What handle_rels sets out to do for a TB without a valid relocation     *)
(* (TBWriter.cpp:9-18): the reader attaches none to it and stays inside    *)
(* the table.                                                              *)
NoRelsReadWithoutValidRel ==
    pc = "done" =>
        \A tb \in {o \in written : o.area = "tb"} :
            HowManyRel(file[tb.of[1]][tb.of[2]]) = 0 => RelsRead(tb) = {}
=============================================================================
