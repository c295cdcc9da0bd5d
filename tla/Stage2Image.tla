---------------------------- MODULE Stage2Image ----------------------------
(***************************************************************************)
(* tools/generate_dsp_stage2.py: what the build makes of an assembled DSP  *)
(* program, a LOD file of sections of P, X or Y words and an entry point.  *)
(* A stand-alone program becomes one boot image, contiguous from P:0; a    *)
(* larger one becomes a stream of sections for the second-stage loader.    *)
(***************************************************************************)
EXTENDS Integers, Sequences, SequencesExt

CONSTANTS
  MemWords,      \* words of P memory; $10000
  LoaderFirst,   \* LOADER_FIRST, where the loader lies
  LoaderLimit,   \* LOADER_LIMIT, behind its last word
  BootLimit,     \* BOOT_LIMIT, what Dsp_ExecBoot installs at most
  ProgramLimit,  \* --program-limit: above it P memory is the tables' Y memory
  Islands        \* --island: pairs <<start, limit>> above it that are free

ASSUME ImageAssumption ==
  /\ MemWords \in Nat /\ MemWords <= 65536
  /\ BootLimit \in 1 .. MemWords /\ ProgramLimit \in 0 .. MemWords
  /\ LoaderFirst \in Nat \ {0} /\ LoaderLimit \in LoaderFirst + 1 .. BootLimit

ASSUME IslandsAssumption ==
  /\ Islands \subseteq Nat \X Nat
  /\ \A i \in Islands : i[1] > ProgramLimit /\ i[2] \in i[1] + 1 .. MemWords
  \* a section is never let across from one to the next
  /\ \A i, j \in Islands : i = j \/ i[2] < j[1] \/ j[2] < i[1]

STAGE2_MAGIC == 5068876       \* $4d584c
DspWords == {w \in Nat : w < 16777216}

Limit(s) == s.address + Len(s.words)
Section(m, a, ws) == [space |-> m, address |-> a, words |-> ws]
-----------------------------------------------------------------------------
(* parse_lod: a file is [sections, open, entry]; entry -1 stands for None, *)
(* and open says that there is a current section.                          *)

NoLod == [sections |-> <<>>, open |-> FALSE, entry |-> -1]

DataLine(lod, m, a) ==
  [lod EXCEPT !.sections = Append(@, Section(m, a, <<>>)), !.open = TRUE]
WordLine(lod, w) ==
  [lod EXCEPT !.sections[Len(lod.sections)].words = Append(@, w)]
EndLine(lod, e) == [lod EXCEPT !.entry = e, !.open = FALSE]

Complete(lod) ==
  /\ lod.entry # -1 /\ lod.sections # <<>>
  /\ \A i \in DOMAIN lod.sections : lod.sections[i].words # <<>>

OnlyP(sections) == \A i \in DOMAIN sections : sections[i].space = "P"

\* The words of a file: the j-th of its i-th section.
Places(sections) == UNION {{i} \X DOMAIN sections[i].words : i \in DOMAIN sections}
Address(sections, p) == sections[p[1]].address + p[2] - 1
Word(sections, p) == sections[p[1]].words[p[2]]

Addresses(sections) == {Address(sections, p) : p \in Places(sections)}
NoCellTwice(sections) ==
  \A p, q \in Places(sections) : Address(sections, p) = Address(sections, q) => p = q
-----------------------------------------------------------------------------
(* make_boot_image, and the bytes of emit_include and emit_standalone.     *)

Bootable(lod, limit) ==
  /\ Complete(lod) /\ lod.entry = 0 /\ OnlyP(lod.sections)
  /\ NoCellTwice(lod.sections)
  /\ 0 \in Addresses(lod.sections)
  /\ LET size == Max(Addresses(lod.sections)) + 1
     IN size <= BootLimit /\ size <= limit

Image(sections, size) ==
  [i \in 1 .. size |->
    IF i - 1 \in Addresses(sections)
      THEN Word(sections, CHOOSE p \in Places(sections) : Address(sections, p) = i - 1)
      ELSE 0]
LastWordLost(lod) == Image(lod.sections, Max(Addresses(lod.sections)))
BootWords(lod) == Image(lod.sections, Max(Addresses(lod.sections)) + 1)

\* The three bytes of a word, the high one first.
Packed(w) == <<(w \div 65536) % 256, (w \div 256) % 256, w % 256>>
BootBytes(words) ==
  [i \in 1 .. 3 * Len(words) |-> Packed(words[(i - 1) \div 3 + 1])[((i - 1) % 3) + 1]]
-----------------------------------------------------------------------------
(* make_program_stream.                                                    *)

\* merge_sections: one that continues its predecessor in the file joins it.
MergeOne(merged, s) ==
  IF merged # <<>> /\ s.space = Last(merged).space /\ s.address = Limit(Last(merged))
    THEN [merged EXCEPT ![Len(merged)].words = @ \o s.words]
    ELSE Append(merged, s)
Merge(sections) ==
  LET merged[i \in 0 .. Len(sections)] ==
        IF i = 0 THEN <<>> ELSE MergeOne(merged[i - 1], sections[i])
  IN merged[Len(sections)]

\* Sorted by address (and, the sort being stable, by their place), each
\* section ends before the next begins.
NeighboursAsWritten(sections) ==
  \A i \in 1 .. Len(sections) - 1 : Limit(sections[i]) <= sections[i + 1].address
SortsBefore(sections, i, j) ==
  \/ sections[i].address < sections[j].address
  \/ sections[i].address = sections[j].address /\ i < j
NeighboursApart(sections) ==
  \A i, j \in DOMAIN sections :
    /\ SortsBefore(sections, i, j)
    /\ ~\E k \in DOMAIN sections : SortsBefore(sections, i, k) /\ SortsBefore(sections, k, j)
    => Limit(sections[i]) <= sections[j].address

ClearOfLoaderStart(s) == s.address >= LoaderLimit \/ s.address < LoaderFirst
ClearOfLoader(s) == s.address >= LoaderLimit \/ Limit(s) <= LoaderFirst
ClearOfTables(s) ==
  \/ Limit(s) <= ProgramLimit
  \/ \E i \in Islands : s.address >= i[1] /\ Limit(s) <= i[2]

Streamable(lod) ==
  /\ Complete(lod) /\ lod.entry = 0 /\ OnlyP(lod.sections)
  /\ NeighboursApart(Merge(lod.sections))
  /\ \A s \in ToSet(Merge(lod.sections)) :
       Limit(s) <= MemWords /\ ClearOfLoader(s) /\ ClearOfTables(s)

\* What the stream holds from the n-th last section on.
LastSections(merged) ==
  LET last[n \in 0 .. Len(merged)] ==
        IF n = 0 THEN <<>>
        ELSE LET s == merged[Len(merged) - n + 1]
             IN <<s.address, Len(s.words)>> \o s.words \o last[n - 1]
  IN last
Stream(lod) ==
  LET merged == Merge(lod.sections)
  IN <<STAGE2_MAGIC, Len(merged)>> \o LastSections(merged)[Len(merged)]
=============================================================================
