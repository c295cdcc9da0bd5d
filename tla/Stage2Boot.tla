----------------------------- MODULE Stage2Boot -----------------------------
(***************************************************************************)
(* From an assembled program to a running DSP: the build reads the LOD     *)
(* file and makes the image; the player's main.s has XBIOS install the     *)
(* first stage in internal P memory and streams the second through the     *)
(* host port to stage2_loader.asm, which lies in a gap of the program it   *)
(* installs; the program is entered through its own reset vector.          *)
(***************************************************************************)
EXTENDS Stage2Image

CONSTANTS
  Lines,     \* bound: lines of the file
  FileSections, \* bound: sections in it
  FileWords, \* bound: its words, in its order
  Starts     \* bound: section addresses in it

ASSUME BootAssumption ==
  {Lines, FileSections} \subseteq Nat /\ FileWords \in Seq(DspWords) /\ Starts \subseteq Nat

VARIABLES
  at,       \* the build, then the location of the DSP program
  lod,      \* what parse_lod has read
  lines,    \* lines read
  mode,     \* the build's options: a stand-alone image, or both stages
  mem,      \* P memory; 0 where nothing was written
  stream,   \* the words the host has not yet written
  tx,       \* the host port's transmit latch, -1 when it is empty
  reply,    \* its receive register, likewise
  r0, sectionsLeft, wordsLeft,  \* the loader's registers
  result    \* dsp_stage2_reply, -1 before the answer

fileVars == <<lod, lines, mode>>
hostVars == <<stream, result>>
portVars == <<tx, reply>>
loaderVars == <<r0, sectionsLeft, wordsLeft>>
bootVars == <<at, fileVars, mem, hostVars, portVars, loaderVars>>

STAGE2_REPLY_OK == 4999361      \* $4c4f41
STAGE2_REPLY_ERROR == 16777215  \* $ffffff

\* The assembled first stage: the jump at the reset vector, and the loader.
LoaderWord(a) == 8388608 + a
Bootstrap ==
  [sections |-> <<Section("P", 0, <<LoaderWord(0)>>),
                  Section("P", LoaderFirst,
                          [i \in 1 .. LoaderLimit - LoaderFirst |-> LoaderWord(LoaderFirst + i - 1)])>>,
   open |-> FALSE, entry |-> 0]
-----------------------------------------------------------------------------
(* The build.                                                              *)

ReadLine(next) ==
  /\ at = "read" /\ lines < Lines
  /\ lod' = next
  /\ lines' = lines + 1
  /\ UNCHANGED <<at, mode, mem, hostVars, portVars, loaderVars>>

Reject ==
  /\ at' = "rejected"
  /\ UNCHANGED <<mem, hostVars, portVars, loaderVars>>

ReadData(m, a) == Len(lod.sections) < FileSections /\ ReadLine(DataLine(lod, m, a))
ReadEnd(e) == ReadLine(EndLine(lod, e))
ReadWord ==
  /\ lod.open
  /\ LET n == Cardinality(Places(lod.sections)) + 1
     IN n \in DOMAIN FileWords /\ ReadLine(WordLine(lod, FileWords[n]))

\* data outside a section (a token that is no word ends the same way)
ReadError == at = "read" /\ lines < Lines /\ ~lod.open /\ Reject /\ UNCHANGED fileVars

\* Dsp_ExecBoot: the packed words, contiguous from P:0; the DSP starts there.
ExecBoot(bytes) ==
  mem' = [a \in 0 .. MemWords - 1 |->
            IF 3 * a + 3 > Len(bytes) THEN 0
            ELSE 65536 * bytes[3 * a + 1] + 256 * bytes[3 * a + 2] + bytes[3 * a + 3]]

\* emit_standalone, and the probes' boot
Standalone ==
  /\ at = "read"
  /\ mode' = "standalone"
  /\ UNCHANGED <<lod, lines>>
  /\ IF Bootable(lod, BootLimit)
       THEN /\ at' = "entered"
            /\ ExecBoot(BootBytes(BootWords(lod)))
            /\ UNCHANGED <<hostVars, portVars, loaderVars>>
       ELSE Reject

\* emit_include, and the player's Dsp_ExecBoot; Dsp_BlkUnpacked follows
TwoStages ==
  /\ at = "read"
  /\ mode' = "include"
  /\ UNCHANGED <<lod, lines>>
  /\ IF Bootable(Bootstrap, LoaderLimit) /\ Streamable(lod)
       THEN /\ at' = "magic"
            /\ ExecBoot(BootBytes(BootWords(Bootstrap)))
            /\ stream' = Stream(lod)
            /\ UNCHANGED <<result, portVars, loaderVars>>
       ELSE Reject

Build ==
  \/ \E m \in {"P", "X"}, a \in Starts : ReadData(m, a)
  \/ \E e \in {0, 1} : ReadEnd(e)
  \/ ReadWord \/ ReadError \/ Standalone \/ TwoStages
-----------------------------------------------------------------------------
(* The host: one word after the other, then the answer.  TOS polls TXDE    *)
(* before the first word only; the loader, in internal P memory, is faster *)
(* than the 68030 writes, so the latch is empty again by the next.  A      *)
(* halted loader reads no more, and the rest is written over it.           *)

Post ==
  /\ stream # <<>>
  /\ tx = -1 \/ at = "halt"
  /\ tx' = Head(stream)
  /\ stream' = Tail(stream)
  /\ UNCHANGED <<at, fileVars, mem, result, reply, loaderVars>>

GetReply ==
  /\ stream = <<>> /\ reply # -1
  /\ result' = reply
  /\ reply' = -1
  /\ UNCHANGED <<at, fileVars, mem, stream, tx, loaderVars>>
-----------------------------------------------------------------------------
(* stage2_loader.asm.                                                      *)

Take(l) == at = l /\ tx # -1 /\ tx' = -1
Untouched == UNCHANGED <<fileVars, hostVars, reply>>

LoadMagic ==
  /\ Take("magic")
  /\ at' = IF tx = STAGE2_MAGIC THEN "count" ELSE "error"
  /\ UNCHANGED <<mem, loaderVars>> /\ Untouched

LoadCount ==
  /\ Take("count")
  /\ at' = IF tx = 0 THEN "error" ELSE "address"
  /\ sectionsLeft' = tx
  /\ UNCHANGED <<mem, r0, wordsLeft>> /\ Untouched

LoadAddress ==
  /\ Take("address")
  /\ r0' = tx
  /\ at' = "length"
  /\ UNCHANGED <<mem, sectionsLeft, wordsLeft>> /\ Untouched

LoadLength ==
  /\ Take("length")
  /\ at' = IF tx = 0 THEN "error" ELSE "word"
  /\ wordsLeft' = tx
  /\ UNCHANGED <<mem, r0, sectionsLeft>> /\ Untouched

\* The two hardware loops end when their count does.
LoopOnce ==
  /\ Take("word")
  /\ mem' = [mem EXCEPT ![r0] = tx]
  /\ r0' = (r0 + 1) % MemWords
  /\ wordsLeft' = wordsLeft - 1
  /\ sectionsLeft' = IF wordsLeft = 1 THEN sectionsLeft - 1 ELSE sectionsLeft
  /\ at' = IF wordsLeft > 1 THEN "word" ELSE "reply"
  /\ Untouched
LoadWord ==
  /\ Take("word")
  /\ mem' = [mem EXCEPT ![r0] = tx]
  /\ r0' = (r0 + 1) % MemWords
  /\ wordsLeft' = wordsLeft - 1
  /\ sectionsLeft' = IF wordsLeft = 1 THEN sectionsLeft - 1 ELSE sectionsLeft
  /\ at' = IF wordsLeft > 1 THEN "word" ELSE IF sectionsLeft > 1 THEN "address" ELSE "reply"
  /\ Untouched

\* stage2_sections_done and stage2_error: the answer, then the jump to P:0 or
\* a loop for ever.  A file without a word at P:0 leaves the bootstrap's jump
\* there: make_program_stream, unlike make_boot_image, does not ask for one,
\* and the loader starts again.
LoaderReply ==
  /\ at \in {"reply", "error"} /\ reply = -1
  /\ reply' = IF at = "reply" THEN STAGE2_REPLY_OK ELSE STAGE2_REPLY_ERROR
  /\ at' = IF at = "error" THEN "halt"
           ELSE IF mem[0] = LoaderWord(0) THEN "magic" ELSE "entered"
  /\ UNCHANGED <<fileVars, mem, hostVars, tx, loaderVars>>

Loader == LoadMagic \/ LoadCount \/ LoadAddress \/ LoadLength \/ LoadWord \/ LoaderReply
-----------------------------------------------------------------------------
BootInit ==
  /\ at = "read"
  /\ lod = NoLod
  /\ lines = 0
  /\ mode = "none"
  /\ mem = [a \in 0 .. MemWords - 1 |-> 0]
  /\ stream = <<>> /\ result = -1
  /\ tx = -1 /\ reply = -1
  /\ r0 = 0 /\ sectionsLeft = 0 /\ wordsLeft = 0

BootNext == Build \/ Post \/ GetReply \/ Loader

BootSpec == BootInit /\ [][BootNext]_bootVars
\* The host writes its block to the end, and the DSP runs.
BootLive == BootSpec /\ WF_bootVars(Post) /\ WF_bootVars(GetReply) /\ WF_bootVars(Loader)
-----------------------------------------------------------------------------
(* Properties.                                                             *)

\* What may be loaded, said of the single words: each has one address, none
\* is the loader's, and each is below the tables or in an island.
Loadable ==
  /\ Complete(lod) /\ lod.entry = 0 /\ OnlyP(lod.sections)
  /\ NoCellTwice(lod.sections)
  /\ Addresses(lod.sections) \subseteq
       ((0 .. ProgramLimit - 1) \cup UNION {i[1] .. i[2] - 1 : i \in Islands})
         \ (LoaderFirst .. LoaderLimit - 1)

\* make_program_stream, which looks at merged sections and at neighbours in
\* the order of their addresses, takes exactly the files that may be loaded.
StreamIffLoadable ==
  mode = "include" => (at # "rejected" <=> Loadable)

\* A program that is entered is the whole program: every word of the file is
\* at its address, and nothing but the boot image is anywhere else.  It holds
\* for the boot image, with its gaps and its packing in bytes, as for the
\* stream, whose sections may come in any order.
EntersProgram ==
  at = "entered" =>
    /\ \A p \in Places(lod.sections) : mem[Address(lod.sections, p)] = Word(lod.sections, p)
    /\ \A a \in (0 .. MemWords - 1) \ Addresses(lod.sections) :
         mem[a] \in IF mode = "include" THEN {0, LoaderWord(a)} ELSE {0}

\* The loader does not write over itself while it runs (stage2_loader.asm:18-19).
LoaderIntact ==
  at \in {"magic", "count", "address", "length", "word", "reply"} =>
    \A a \in LoaderFirst .. LoaderLimit - 1 : mem[a] = LoaderWord(a)

\* The player gets its answer, and it is OK: neither side waits for a word or
\* an answer the other does not send (main.s:85-89).
ReplyArrives == at = "magic" ~> result = STAGE2_REPLY_OK
=============================================================================
