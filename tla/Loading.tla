------------------------------- MODULE Loading -------------------------------
(***************************************************************************)
(* Reading the blocks of a file and linking them: the constructors of      *)
(* AOT_File, Segment and TB, which register every block in x86AddrToTb,    *)
(* and Segment::settle_all_tb, which looks up where the recorded jumps of  *)
(* a segment's blocks go.                                                  *)
(*                                                                         *)
(* The map has the full address of a block for its key.  The constructor   *)
(* of TB is given the beginning of the segment cut to Width (2^32), and so *)
(* stores, and asks the map for, a cut address.  Asking is by operator[],  *)
(* which leaves an entry with a null pointer where there was none.         *)
(*                                                                         *)
(* A definition introduced as a slip is the one after it with a bug a      *)
(* programmer could make; nothing uses it.                                 *)
(***************************************************************************)
EXTENDS Integers, SequencesExt, FiniteSetsExt

CONSTANTS
    Width,   \* the addresses a u_int32_t can hold
    Files    \* the files there may be

Jumps == {0, 1}
NoTB  == <<>>   \* nullptr; a block is <<its segment, its place there>>

(* A file: the segments, each with where it begins in memory and its       *)
(* blocks: offset_in_segment, and of the recorded jumps x86_offset.        *)
SegmentType == [begin : Nat,
                tbs   : Seq([offset : Nat, linked : SUBSET Jumps, to : [Jumps -> Nat]])]

ASSUME WidthAssumption == Width \in Nat \ {0}
ASSUME FilesAssumption ==
    \A f \in Files :
        /\ f \in Seq(SegmentType)
        /\ \A s \in DOMAIN f : \A k \in DOMAIN f[s].tbs :
            f[s].tbs[k].offset < Width /\ \A d \in Jumps : f[s].tbs[k].to[d] < Width

VARIABLES
    file,       \* the file
    pc,         \* "read", "link", "done", "error" or "aborted"
    seg, place, \* the segment and the block in it that is next
    x86,        \* x86AddrToTb
    built,      \* the blocks constructed, in order
    branch,     \* by block, false_branch (0) and true_branch (1)
    parents     \* by block, the vector of its parents

vars == <<file, pc, seg, place, x86, built, branch, parents>>

TBs == UNION {{s} \X DOMAIN file[s].tbs : s \in DOMAIN file}

TB(t) == file[t[1]].tbs[t[2]]

(* The address of a block, and the one TB::x86_addr has.                   *)
Address(t) == file[t[1]].begin + TB(t).offset
Cut(addr)  == addr % Width

(* The address a recorded jump goes to, as TB_Link adds it up.             *)
Goal(t, d) == file[t[1]].begin + TB(t).to[d]

(* What operator[] finds.                                                  *)
At(map, addr) == IF addr \in DOMAIN map THEN map[addr] ELSE NoTB

(* Storing through it, and what it leaves behind when only asked.          *)
Stored(map, addr, t) == [a \in DOMAIN map \cup {addr} |-> IF a = addr THEN t ELSE map[a]]
Asked(map, addr)     == Stored(map, addr, At(map, addr))

Init ==
    /\ file \in Files
    /\ pc = "read"
    /\ seg = 1
    /\ place = 1
    /\ x86 = <<>>
    /\ built = <<>>
    /\ branch = [t \in TBs |-> [d \in Jumps |-> NoTB]]
    /\ parents = [t \in TBs |-> <<>>]

-----------------------------------------------------------------------------
(* Reading.                                                                *)

Here == <<seg, place>>

InSegment == seg <= Len(file) /\ place <= Len(file[seg].tbs)

(* The test at the beginning of TB's constructor.                          *)
AlreadyInMap == At(x86, Cut(Address(Here))) # NoTB

(* TB::TB, and its registration in the loop of Segment::Segment.           *)
BuildTB ==
    /\ pc = "read"
    /\ InSegment
    /\ ~ AlreadyInMap
    /\ x86' = Stored(Asked(x86, Cut(Address(Here))), Address(Here), Here)
    /\ built' = Append(built, Here)
    /\ place' = place + 1
    /\ UNCHANGED <<file, pc, seg, branch, parents>>

(* error() ends the program.                                               *)
RefuseTB ==
    /\ pc = "read"
    /\ InSegment
    /\ AlreadyInMap
    /\ pc' = "error"
    /\ UNCHANGED <<file, seg, place, x86, built, branch, parents>>

(* The next segment; when AOT_File::AOT_File has read all, linking begins. *)
NextSegment ==
    /\ pc \in {"read", "link"}
    /\ seg <= Len(file) /\ ~ InSegment
    /\ seg' = seg + 1
    /\ place' = 1
    /\ UNCHANGED <<file, pc, x86, built, branch, parents>>

LastSegment ==
    /\ pc \in {"read", "link"}
    /\ seg > Len(file)
    /\ pc' = IF pc = "read" THEN "link" ELSE "done"
    /\ seg' = 1
    /\ place' = 1
    /\ UNCHANGED <<file, x86, built, branch, parents>>

-----------------------------------------------------------------------------
(* Linking.  The state of a link is the map, branch and parents, and       *)
(* whether an assertion has failed.                                        *)

(* A slip: the address is looked up as the blocks have it.                 *)
LinkedCut(s, t, d) ==
    LET next == At(s.x86, Cut(Goal(t, d)))
        map  == Asked(s.x86, Cut(Goal(t, d)))
    IN  IF next = NoTB THEN [s EXCEPT !.x86 = map]
        ELSE [x86     |-> map,
              branch  |-> [s.branch EXCEPT ![t][d] = next],
              parents |-> [s.parents EXCEPT ![next] = Append(@, t)],
              failed  |-> s.failed \/ s.branch[t][d] # NoTB]

(* A slip: a parent is noted once, however many links it has.              *)
LinkedOnce(s, t, d) ==
    LET next == At(s.x86, Goal(t, d))
        map  == Asked(s.x86, Goal(t, d))
    IN  IF next = NoTB THEN [s EXCEPT !.x86 = map]
        ELSE [x86     |-> map,
              branch  |-> [s.branch EXCEPT ![t][d] = next],
              parents |-> [s.parents EXCEPT ![next] = IF t \in Range(@) THEN @
                                                      ELSE Append(@, t)],
              failed  |-> s.failed \/ s.branch[t][d] # NoTB]

(* Segment::TB_Link and SetNextTB, with its assertion.                     *)
Linked(s, t, d) ==
    LET next == At(s.x86, Goal(t, d))
        map  == Asked(s.x86, Goal(t, d))
    IN  IF next = NoTB THEN [s EXCEPT !.x86 = map]
        ELSE [x86     |-> map,
              branch  |-> [s.branch EXCEPT ![t][d] = next],
              parents |-> [s.parents EXCEPT ![next] = Append(@, t)],
              failed  |-> s.failed \/ s.branch[t][d] # NoTB]

LinkedIfRecorded(s, t, d) == IF d \in TB(t).linked THEN Linked(s, t, d) ELSE s

(* The jumps of a block, the true one first.                               *)
LinkedBoth(s, t) == LinkedIfRecorded(LinkedIfRecorded(s, t, 1), t, 0)

(* One round of the loop of settle_all_tb.                                 *)
SettleTB ==
    /\ pc = "link"
    /\ InSegment
    /\ LET s == LinkedBoth([x86 |-> x86, branch |-> branch, parents |-> parents,
                            failed |-> FALSE], Here)
       IN  /\ x86' = s.x86
           /\ branch' = s.branch
           /\ parents' = s.parents
           /\ pc' = IF s.failed THEN "aborted" ELSE pc
    /\ place' = place + 1
    /\ UNCHANGED <<file, seg, built>>

Next == BuildTB \/ RefuseTB \/ NextSegment \/ LastSegment \/ SettleTB

Spec == Init /\ [][Next]_vars

-----------------------------------------------------------------------------
(* Properties.                                                             *)

Built == Range(built)

(* The block that answers for an address is the one built last there.      *)
IsAt(t, addr) ==
    /\ t \in Built /\ Address(t) = addr
    /\ \A k, m \in DOMAIN built :
        built[m] = t /\ Address(built[k]) = addr => k <= m

(* When linking is over, a link leads to a block that lies exactly where   *)
(* the recorded jump goes, and is missing only where the file has none:    *)
(* not where one lies a multiple of 4 GiB away, although the blocks keep   *)
(* cut addresses, and not for the null entries lookups have left           *)
(* (aot_class.cpp:117-119 and 494-497).                                    *)
LinksExact ==
    pc = "done" =>
        \A t \in TBs : \A d \in Jumps :
            IF branch[t][d] = NoTB
            THEN d \notin TB(t).linked \/ \A u \in TBs : Address(u) # Goal(t, d)
            ELSE d \in TB(t).linked /\ IsAt(branch[t][d], Goal(t, d))

(* The parents of a block are the blocks linked to it, each as often as it *)
(* is, and so an entry block (EntryBlockVistor, get_all_entrys_block) is   *)
(* one nothing links to; and no jump is linked twice, which SetNextTB      *)
(* asserts (aot_class.cpp:414, 419).                                       *)
ParentsAreLinks ==
    /\ pc # "aborted"
    /\ \A u \in TBs :
        /\ \A t \in TBs :
            Cardinality({k \in DOMAIN parents[u] : parents[u][k] = t})
                = Cardinality({d \in Jumps : branch[t][d] = u})
        /\ Len(parents[u]) = Cardinality({link \in TBs \X Jumps : branch[link[1]][link[2]] = u})

(* The constructor's check is about what its message says, a block         *)
(* "already in map" (aot_class.cpp:119-123): it refuses a block if and     *)
(* only if one with the same address has been registered.                  *)
DuplicateCheckExact ==
    pc = "read" /\ InSegment =>
        (AlreadyInMap <=> \E t \in Built : Address(t) = Address(Here))

=============================================================================
