------------------------------ MODULE Process ------------------------------
(***************************************************************************)
(* main.rs around its loop: the program is loaded, the guest gets its PC   *)
(* and stack, and each block to translate is fetched from guest memory.    *)
(* Here a guest PC is any u64, aligned or not; what translated code does   *)
(* is left open, except that it comes back with some PC; its stores are    *)
(* left out.  The loop's other half, and code that is overwritten, are in  *)
(* Launcher, for a memory of whole words.                                  *)
(***************************************************************************)
EXTENDS ElfLoader

CONSTANTS
  WordsPerFetch,  \* WORDS_PER_FETCH, 32
  SpGap,          \* 16 bytes kept above the first stack pointer
  SpAlign         \* its alignment, 16

ASSUME ProcessAssumption ==
  /\ WordsPerFetch \in Nat \ {0} /\ Loader # {}
  /\ SpGap \in Nat \ {0} /\ SpAlign \in Nat \ {0}

(* How the constants of elf.rs and main.rs fit: everything that makes up   *)
(* the end of memory is whole pages, a word is smaller than a page, and    *)
(* the slack is above 16 + 16 bytes.                                       *)
ASSUME LayoutAssumption ==
  /\ AddrMod % PageSize = 0 /\ StackSize % PageSize = 0 /\ Slack % PageSize = 0
  /\ WordBytes < PageSize
  /\ SpGap + SpAlign <= Slack

VARIABLES
  stage,   \* "load", "loop", "fetched", "done"
  gpc,     \* GuestState.pc
  sp,      \* GuestState.sp
  window,  \* the words of the last fetch
  result   \* how try_main ended: "none", "exit", "load", "outside",
           \* "refused", "budget", "overflow" (an error), "panic" (a failed assertion,
           \* or an addition that overflows)

pvars == <<host, call, stage, gpc, sp, window, result>>

main == CHOOSE l \in Loader : TRUE
Size == call[main].size
File == call[main].file

NoWindow == <<>>

ProcessInit ==
  /\ Init
  /\ stage = "load" /\ gpc = 0 /\ sp = 0 /\ window = NoWindow /\ result = "none"

(* elf::load, step by step. *)
LoadImage ==
  /\ stage = "load"
  /\ Unreadable(main) \/ Loading(main) \/ \E file \in Files : Start(main, file)
  /\ IF call'[main].phase = "idle"
     THEN stage' = "done" /\ result' = "load"
     ELSE UNCHANGED <<stage, result>>
  /\ UNCHANGED <<gpc, sp, window>>

SaturatingSub(a, b) == IF a >= b THEN a - b ELSE 0

(* The initial guest state. *)
Setup ==
  /\ stage = "load" /\ call[main].phase = "loaded"
  /\ stage' = "loop"
  /\ gpc' = File.entry
  /\ sp' = (SaturatingSub(Size, SpGap) \div SpAlign) * SpAlign
  /\ UNCHANGED <<host, call, window, result>>

(* try_main returns, and the LoadedElf is dropped. *)
Ends(why) ==
  /\ Release(main)
  /\ stage' = "done" /\ result' = why
  /\ UNCHANGED <<gpc, sp, window>>

Outside(p) == p >= Size \/ ~ InBounds(p, WordBytes, Size)

Exit == stage = "loop" /\ gpc = 0 /\ Ends("exit")

PcOutside == stage = "loop" /\ gpc # 0 /\ Outside(gpc) /\ Ends("outside")

(* MAX_BLOCKS iterations are over, or run fails on a block translated      *)
(* before; neither looks at where the PC is. *)
OutOfBudget == stage = "loop" /\ gpc # 0 /\ Ends("budget")

(* One round of the fetch loop, for the word at pc + index * 4: the first  *)
(* addition is checked, the second is not.                                 *)
Round(p, index) ==
  LET address == p + index * WordBytes
  IN  IF address >= AddrMod THEN "overflow"
      ELSE IF address + WordBytes >= AddrMod THEN "panic"
      ELSE IF address + WordBytes > Size THEN "break"
      ELSE "read"

(* The words read before the loop breaks, fails or is through. *)
Rounds(p) ==
  CHOOSE n \in 0 .. WordsPerFetch :
    /\ \A i \in 0 .. n - 1 : Round(p, i) = "read"
    /\ n = WordsPerFetch \/ Round(p, n) # "read"

ZeroBytes == [i \in 1 .. WordBytes |-> 0]

(* A deliberately wrong WindowAt: words at multiples of their size only.   *)
WindowAt_Aligned(p, n) ==
  [i \in 1 .. WordsPerFetch |->
     IF i <= n THEN ReadWord((p \div WordBytes + i - 1) * WordBytes) ELSE ZeroBytes]

WindowAt(p, n) ==
  [i \in 1 .. WordsPerFetch |->
     IF i <= n THEN ReadWord(p + (i - 1) * WordBytes) ELSE ZeroBytes]

(* The fetch of an untranslated block. *)
Fetch ==
  /\ stage = "loop" /\ gpc # 0 /\ ~ Outside(gpc)
  /\ LET n == Rounds(gpc)
     IN  IF n = WordsPerFetch \/ Round(gpc, n) = "break"
         THEN /\ window' = WindowAt(gpc, n)
              /\ stage' = "fetched"
              /\ UNCHANGED <<host, call, gpc, sp, result>>
         ELSE Ends(Round(gpc, n))

(* The block is refused, or fails, or runs and leaves any PC behind.      *)
Refused == stage = "fetched" /\ Ends("refused")
BlockRan ==
  /\ stage = "fetched"
  /\ gpc' \in GuestAddress
  /\ stage' = "loop"
  /\ window' = NoWindow
  /\ UNCHANGED <<host, call, sp, result>>

ProcessNext ==
  LoadImage \/ Setup \/ Exit \/ PcOutside \/ OutOfBudget \/ Fetch \/ Refused \/ BlockRan

ProcessSpec == ProcessInit /\ [][ProcessNext]_pvars

Results ==
  {"none", "exit", "load", "outside", "refused", "budget", "overflow", "panic"}

ProcessTypeOK ==
  /\ TypeOK /\ result \in Results
  /\ stage \in {"load", "loop", "fetched", "done"}
  /\ gpc \in GuestAddress /\ sp \in GuestAddress
  /\ stage \in {"loop", "fetched"} => call[main].phase = "loaded"
  /\ (stage = "done") = (result # "none")
-----------------------------------------------------------------------------
(* The fetch neither overflows nor trips an assertion of read_u32, from    *)
(* whatever PC the guest jumps to: its unchecked address + 4 cannot wrap   *)
(* because memory ends on a page (main.rs:41-51, memory.rs:69, elf.rs:88). *)
FetchNeverFails == result \notin {"overflow", "panic"}

(* What is handed to the translator is the program: word i is that of the  *)
(* file's image at pc + 4 * i if memory holds all four bytes, and zero     *)
(* after the last such word (main.rs:46-51).                               *)
WindowExact ==
  stage = "fetched" =>
    \A i \in 1 .. WordsPerFetch :
      LET at == gpc + (i - 1) * WordBytes
      IN  window[i] = IF at + WordBytes <= Size
                      THEN [j \in 1 .. WordBytes |-> L!ByteAt(File, at + j - 1)]
                      ELSE ZeroBytes

(* The guest starts with an aligned stack pointer inside its memory and    *)
(* with the whole stack reserve between it and the highest segment         *)
(* (main.rs:35, elf.rs:88-95).                                             *)
StackClear ==
  stage \in {"loop", "fetched"} =>
    /\ sp % SpAlign = 0
    /\ sp < Size
    /\ \A i \in Occupied(File) : End(File.segs[i]) + StackSize <= sp

(* However try_main ends, guest memory is given back (memory.rs:80-83).    *)
MemoryReturned == stage = "done" => host = Unmapped
=============================================================================
