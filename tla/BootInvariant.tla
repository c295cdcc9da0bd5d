--------------------------- MODULE BootInvariant ---------------------------
(***************************************************************************)
(* The inductive invariant of Stage2Boot: what the host port still has to  *)
(* bring is what the loader, at the place it has reached, still lacks, and *)
(* P memory holds what it has installed and the boot image elsewhere.      *)
(***************************************************************************)
EXTENDS Stage2Boot

Sections == [space : {"P", "X"}, address : Nat, words : Seq(DspWords)]
Answers == {-1, STAGE2_REPLY_OK, STAGE2_REPLY_ERROR}
LoaderPlaces == {"magic", "count", "address", "length", "word", "reply"}

BootType ==
  /\ at \in LoaderPlaces \cup {"read", "rejected", "entered", "error", "halt"}
  /\ lod \in [sections : Seq(Sections), open : BOOLEAN, entry : Int]
  /\ lod.open => lod.sections # <<>>
  /\ lines \in Nat
  /\ mode \in {"none", "standalone", "include"}
  /\ mem \in [0 .. MemWords - 1 -> Nat]
  /\ stream \in Seq(Nat) /\ tx \in Nat \cup {-1}
  /\ {reply, result} \subseteq Answers
  /\ {r0, sectionsLeft, wordsLeft} \subseteq Nat

\* Before the build is done, and behind a stand-alone image, there is no
\* transfer; a stream is made of a file that may be loaded, and of no other.
ModeInv ==
  /\ at = "read" => mode = "none"
  /\ mode # "include" => /\ at \in {"read", "rejected", "entered"}
                         /\ stream = <<>> /\ tx = -1 /\ reply = -1
  /\ mode = "none" => at # "entered"
  /\ mode = "standalone" /\ at = "entered" => EntersProgram
  /\ mode = "include" => IF at = "rejected" THEN ~Streamable(lod)
                         ELSE Streamable(lod) /\ at \in LoaderPlaces \cup {"entered"}
-----------------------------------------------------------------------------
(* The transfer of a stream.                                               *)

Merged == Merge(lod.sections)
\* The place in the stream of the section that is being loaded.
Current == Len(Merged) - sectionsLeft + 1
Loaded == Len(Merged[Current].words) - wordsLeft

\* What the host port still has to bring.
Pending == (IF tx = -1 THEN <<>> ELSE <<tx>>) \o stream

Within == sectionsLeft \in 1 .. Len(Merged)
PendingInv ==
  /\ at = "magic" => Pending \in {Stream(lod), <<>>}
  /\ at = "count" => Pending = Tail(Stream(lod))
  /\ at = "address" => Within /\ Pending = LastSections(Merged)[sectionsLeft]
  /\ at = "length" =>
       /\ Within /\ Pending = Tail(LastSections(Merged)[sectionsLeft])
       /\ r0 = Merged[Current].address
  /\ at = "word" =>
       /\ Within /\ wordsLeft \in 1 .. Len(Merged[Current].words)
       /\ Pending = SubSeq(Merged[Current].words, Loaded + 1, Len(Merged[Current].words))
                      \o LastSections(Merged)[sectionsLeft - 1]
       /\ r0 = Merged[Current].address + Loaded
  /\ at \in {"reply", "entered"} => sectionsLeft = 0 /\ Pending = <<>>

\* Nothing was installed before the first section; afterwards, what lies in
\* front of the loader's place.  It may have started again at the end.
Untransferred == at = "count" \/ (at = "magic" /\ Pending # <<>>)
Installed ==
  IF Untransferred THEN {}
  ELSE {p \in Places(Merged) :
          p[1] < Current \/ (at = "word" /\ p[1] = Current /\ p[2] <= Loaded)}
BootMem(a) == IF a = 0 \/ a \in LoaderFirst .. LoaderLimit - 1 THEN LoaderWord(a) ELSE 0
Holds(done) ==
  /\ \A p \in done : mem[Address(Merged, p)] = Word(Merged, p)
  /\ \A a \in 0 .. MemWords - 1 :
       (\A p \in done : Address(Merged, p) # a) => mem[a] = BootMem(a)
MemInv ==
  /\ (at = "magic" /\ Pending = <<>>) => sectionsLeft = 0
  /\ Holds(Installed)

TransferInv == mode = "include" /\ at # "rejected" => PendingInv /\ MemInv
BootInv == BootType /\ ModeInv /\ TransferInv
=============================================================================
