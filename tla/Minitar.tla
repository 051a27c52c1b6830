-------------------------------- MODULE Minitar --------------------------------
(***************************************************************************)
(* proj1-code: minitar.c under minitar_main.c.  The archive is a sequence  *)
(* of blocks: for each version of a file a header and its data, padded     *)
(* with zeros to whole blocks, and two zero blocks behind the last.        *)
(* Commands run one at a time, each a process of its own; a step is one    *)
(* block read or written.                                                  *)
(*                                                                         *)
(* Of a header, the name and the size are modelled, the size as the octal  *)
(* digits it is written in.  Files exist, and their owner may rewrite them *)
(* between commands and while others are archived, but not while their own *)
(* data is read.  A read of a file that is archived may fail, and so may   *)
(* the look at its owner's or its group's name; fopen, stat, seek and what *)
(* extraction reads and writes succeed.  A write of a block                *)
(* to the archive is whole or fails, and what stdio holds back when a      *)
(* write fails or the process is killed counts as not written.             *)
(***************************************************************************)
EXTENDS Integers, SequencesExt

CONSTANTS
  Names,
  Nameless,    \* files whose owner or group may turn out to have no name
  Contents,    \* what a file may hold: sequences of bytes
  BLOCK_SIZE,
  Digits,      \* of the size field
  FileLists,   \* the file arguments of a command
  MaxCommands  \* bound: commands and edits

ASSUME BlockAssumption == BLOCK_SIZE \in Nat \ 0 .. 3
ASSUME NamelessAssumption == Nameless \subseteq Names
ASSUME DigitsAssumption == Digits \in Nat \ {0}
ASSUME ListsAssumption == FileLists \subseteq Seq(Names)

\* pow(8, power).
Power8[power \in 0 .. Digits] == IF power = 0 THEN 1 ELSE 8 * Power8[power - 1]

INT_MAX == 2147483647

\* A size fits its field and, rounded up to whole blocks, the int it is read into.
ASSUME ContentsAssumption ==
  \A c \in Contents :
    c \in Seq(0 .. 255) /\ Len(c) < Power8[Digits] /\ Len(c) <= INT_MAX - BLOCK_SIZE

VARIABLES
  archive,  \* the blocks of the archive file
  disk,     \* what each file holds
  damaged,  \* since the archive was created, a command on it has failed, was killed or
            \* has written a header in part, or a file has changed its size between the
            \* two looks at it
  stage,    \* where the command is
  op,       \* create, append (which update calls) or extract
  files,    \* the list of files
  src_size, \* of the current file: what the second look at it found, or its header says
  pos,      \* the block of the archive that extraction reads next
  k,        \* files done
  j,        \* blocks of the current file, or of the footer, done
  commands  \* commands and edits so far

vars == <<archive, disk, damaged, stage, op, files, src_size, pos, k, j, commands>>

-------------------------------------------------------------------------------
(* Blocks *)

Zero == [kind |-> "data", bytes |-> [b \in 1 .. BLOCK_SIZE |-> 0]]
Blocks(size) == (size + BLOCK_SIZE - 1) \div BLOCK_SIZE

\* The cast to unsigned, of four bytes.
Unsigned(size) == IF size <= INT_MAX THEN size ELSE size % (2 * (INT_MAX + 1))

\* What an int becomes that is assigned x: out of range, the least int.
ToInt(x) == IF x <= INT_MAX THEN x ELSE -INT_MAX - 1

\* snprintf of the size: blanks, which are no digits, before the first digit.
Blank == -1
Octal(size) ==
  [d \in 1 .. Digits |->
     LET q == Unsigned(size) \div Power8[Digits - d]
     IN IF q = 0 /\ d < Digits THEN Blank ELSE q % 8]

\* The digits count for powers Digits - 1 down to 0; what is not a digit is skipped.
SizeFromOctal(digits) ==
  LET size_bytes[d \in 0 .. Digits] ==
        IF d = 0 THEN 0
        ELSE ToInt(size_bytes[d - 1] +
                     IF digits[d] \in 0 .. 9 THEN digits[d] * Power8[Digits - d] ELSE 0)
  IN size_bytes[Digits]

\* The header that fill_tar_header fills in, and the one it leaves when the name of the
\* owner or the group is not found: there is nothing yet where the size should be.
Header(n) == [kind |-> "header", name |-> n, size |-> Octal(Len(disk[n]))]
PartHeader(n) == [kind |-> "header", name |-> n, size |-> [d \in 1 .. Digits |-> Blank]]
HeaderSize(h) == SizeFromOctal(h.size)

\* The block of content c from byte b * BLOCK_SIZE on: the buffer is zeroed first.
DataBlock(c, b) ==
  [kind |-> "data",
   bytes |-> [x \in 1 .. BLOCK_SIZE |->
                IF b * BLOCK_SIZE + x <= Len(c) THEN c[b * BLOCK_SIZE + x] ELSE 0]]

\* cursorToNextHeader finds more than zeros in the first four bytes of block p of a, where
\* a header has its name.
MoreAt(a, p) == p <= Len(a) /\ (a[p].kind = "header" \/ \E b \in 1 .. 4 : a[p].bytes[b] # 0)
NextHeader(a, p) == p + 1 + Blocks(HeaderSize(a[p]))

\* The headers that the rounds of file_list_no_print find, the first and then one for
\* each round that finds more behind it.
Walk(a) ==
  LET from[p \in 1 .. Len(a)] ==
        <<p>> \o IF a[p].kind = "header" /\ MoreAt(a, NextHeader(a, p))
                 THEN from[NextHeader(a, p)] ELSE <<>>
  IN from[1]

\* The walk meets headers only, and no header is taken for data: an archive that was
\* damaged further is not read in this model.
Readable(a) ==
  /\ a # <<>>
  /\ \A m \in DOMAIN Walk(a) :
       LET p == Walk(a)[m] IN
         /\ a[p].kind = "header"
         /\ \A x \in p + 1 .. NextHeader(a, p) - 1 : x <= Len(a) => a[x].kind = "data"

\* file_list_no_print.
Listing(a) == [m \in DOMAIN Walk(a) |-> a[Walk(a)[m]].name]

\* The list holds the name.
file_list_contains(list, n) == Contains(list, n)

TarInit ==
  /\ archive = <<>>
  /\ disk \in [Names -> Contents]
  /\ damaged = FALSE
  /\ stage = "idle" /\ op = "create" /\ files = <<>>
  /\ src_size = 0 /\ pos = 1 /\ k = 0 /\ j = 0
  /\ commands = 0

Command == stage = "idle" /\ commands < MaxCommands /\ commands' = commands + 1

Start(label, name, list) ==
  /\ stage' = label /\ op' = name /\ files' = list
  /\ src_size' = 0 /\ pos' = 1 /\ k' = 0 /\ j' = 0

\* The loop over the list of files begins, or there is only a footer to write.
StartWriting(name, fs) == Start(IF fs = <<>> THEN "footer" ELSE "header", name, fs)

Finished == Start("idle", "create", <<>>)

\* The owner of a file rewrites it, between commands or between the two looks a command
\* takes at the size of a file: at any other point it is as if a moment earlier or later.
Edit(n, c) ==
  /\ stage \in {"idle", "stat"}
  /\ commands < MaxCommands /\ commands' = commands + 1
  /\ disk' = [disk EXCEPT ![n] = c]
  /\ damaged' = (damaged \/ (stage = "stat" /\ n = files[k + 1] /\ Len(c) # Len(disk[n])))
  /\ UNCHANGED <<archive, stage, op, files, src_size, pos, k, j>>

-------------------------------------------------------------------------------
(* create_archive, append_files_to_archive, update_archive *)

\* fopen with "w".
Create(fs) ==
  /\ Command
  /\ archive' = <<>> /\ damaged' = FALSE
  /\ StartWriting("create", fs)
  /\ UNCHANGED disk

\* Mutant: one block more than the footer goes.
StrippedThree(a) == IF Len(a) < 3 THEN a ELSE SubSeq(a, 1, Len(a) - 3)

\* Mutant: one zero block stays.
StrippedOne(a) == SubSeq(a, 1, Len(a) - 1)

\* remove_trailing_bytes of two blocks; a file that is shorter or does not exist
\* stays as it is, which its caller does not notice: fopen with "a" creates it.
Stripped(a) == IF Len(a) < 2 THEN a ELSE SubSeq(a, 1, Len(a) - 2)

Appends(fs) ==
  /\ archive' = Stripped(archive)
  /\ StartWriting("append", fs)
  /\ UNCHANGED <<disk, damaged>>

AppendFiles(fs) ==
  /\ Command
  /\ Appends(fs)

\* Every file must be in the archive, or update returns.
Update(fs) ==
  /\ Command
  /\ Readable(archive)
  /\ IF \A f \in DOMAIN fs : file_list_contains(Listing(archive), fs[f])
     THEN Appends(fs)
     ELSE UNCHANGED <<archive, disk, damaged, stage, op, files, src_size, pos, k, j>>

WriteHeader ==
  /\ stage = "header"
  /\ k < Len(files)
  /\ archive' = Append(archive, Header(files[k + 1]))
  /\ stage' = "stat"
  /\ UNCHANGED <<disk, damaged, op, files, src_size, pos, k, j, commands>>

\* fill_tar_header fails, which its callers do not test: they write what there is of the
\* header, and the data behind it, and return 0.
WritePartHeader ==
  /\ stage = "header"
  /\ k < Len(files)
  /\ files[k + 1] \in Nameless
  /\ archive' = Append(archive, PartHeader(files[k + 1]))
  /\ damaged' = TRUE
  /\ stage' = "stat"
  /\ UNCHANGED <<disk, op, files, src_size, pos, k, j, commands>>

\* The second look at the size.
StatAgain ==
  /\ stage = "stat"
  /\ src_size' = Len(disk[files[k + 1]])
  /\ stage' = "data"
  /\ UNCHANGED <<archive, disk, damaged, op, files, pos, k, j, commands>>

WriteBlock ==
  /\ stage = "data"
  /\ j < Blocks(src_size)
  /\ archive' = Append(archive, DataBlock(disk[files[k + 1]], j))
  /\ j' = j + 1
  /\ UNCHANGED <<disk, damaged, stage, op, files, src_size, pos, k, commands>>

NextFile ==
  /\ stage = "data"
  /\ j = Blocks(src_size)
  /\ k' = k + 1
  /\ stage' = IF k' < Len(files) THEN "header" ELSE "footer"
  /\ src_size' = 0 /\ j' = 0
  /\ UNCHANGED <<archive, disk, damaged, op, files, pos, commands>>

WriteFooter ==
  /\ stage = "footer"
  /\ j < 2
  /\ archive' = Append(archive, Zero)
  /\ j' = j + 1
  /\ UNCHANGED <<disk, damaged, stage, op, files, src_size, pos, k, commands>>

WritesDone ==
  /\ stage = "footer"
  /\ j = 2
  /\ Finished
  /\ UNCHANGED <<archive, disk, damaged, commands>>

\* A write of the archive fails, or a read of the file, and the command returns.
WriteFails ==
  /\ \/ stage = "header"
     \/ stage = "data" /\ j < Blocks(src_size)
     \/ stage = "footer" /\ op = "append" /\ j < 2
  /\ damaged' = TRUE
  /\ Finished
  /\ UNCHANGED <<archive, disk, commands>>

\* The process is killed while it writes the archive.  (What an extraction leaves when
\* it is killed is a file like any other.)
Killed ==
  /\ stage # "idle" /\ op # "extract"
  /\ damaged' = TRUE
  /\ Finished
  /\ UNCHANGED <<archive, disk, commands>>

\* create_archive does not test the writes of the footer.
FooterLost ==
  /\ stage = "footer" /\ op = "create" /\ j < 2
  /\ damaged' = TRUE
  /\ j' = j + 1
  /\ UNCHANGED <<archive, disk, stage, op, files, src_size, pos, k, commands>>

-------------------------------------------------------------------------------
(* extract_files_from_archive: first the list of files, then each of them from   *)
(* the front.  While it runs, op is "extract"; extraction ends in a stage of its *)
(* own.                                                                          *)

Extract ==
  /\ Command
  /\ Readable(archive)
  /\ Start("open", "extract", Listing(archive))
  /\ UNCHANGED <<archive, disk, damaged>>

\* fopen with "w", and the header is read.
OpenFile ==
  /\ stage = "open"
  /\ k < Len(files)
  /\ disk' = [disk EXCEPT ![files[k + 1]] = <<>>]
  /\ src_size' = HeaderSize(archive[pos])
  /\ pos' = pos + 1
  /\ stage' = "copy" /\ j' = 0
  /\ UNCHANGED <<archive, damaged, op, files, k, commands>>

\* A block behind the end of the archive reads as zeros.
CopyBlock ==
  /\ stage = "copy"
  /\ j < Blocks(src_size)
  /\ LET block == IF pos <= Len(archive) THEN archive[pos] ELSE Zero
     IN disk' = [disk EXCEPT ![files[k + 1]] = @ \o block.bytes]
  /\ pos' = pos + 1
  /\ j' = j + 1
  /\ UNCHANGED <<archive, damaged, stage, op, files, src_size, k, commands>>

\* Mutant: the remainder is removed, not what fills the block up.
TrimsRemainder(c, size) == SubSeq(c, 1, Len(c) - (size % BLOCK_SIZE))

\* remove_trailing_bytes of what the last block has too many.
Trimmed(c, size) ==
  LET remainder == size % BLOCK_SIZE
  IN IF remainder = 0 THEN c ELSE SubSeq(c, 1, Len(c) - (BLOCK_SIZE - remainder))

CloseFile ==
  /\ stage = "copy"
  /\ j = Blocks(src_size)
  /\ disk' = [disk EXCEPT ![files[k + 1]] = Trimmed(@, src_size)]
  /\ stage' = "open" /\ k' = k + 1 /\ src_size' = 0 /\ j' = 0
  /\ UNCHANGED <<archive, damaged, op, files, pos, commands>>

Extracted ==
  /\ stage = "open"
  /\ k = Len(files)
  /\ Finished
  /\ UNCHANGED <<archive, disk, damaged, commands>>

TarNext ==
  \/ \E n \in Names : \E c \in Contents : Edit(n, c)
  \/ \E fs \in FileLists : Create(fs) \/ AppendFiles(fs) \/ Update(fs)
  \/ WriteHeader \/ WritePartHeader \/ StatAgain \/ WriteBlock \/ NextFile \/ WriteFooter \/ WritesDone
  \/ WriteFails \/ Killed \/ FooterLost
  \/ Extract \/ OpenFile \/ CopyBlock \/ CloseFile \/ Extracted

TarSpec == TarInit /\ [][TarNext]_vars

-------------------------------------------------------------------------------
(* Properties *)

\* A member starts at block p: a header and all the blocks of its size.
Complete(a, p) ==
  /\ p <= Len(a) /\ a[p].kind = "header"
  /\ NextHeader(a, p) <= Len(a) + 1
  /\ \A x \in p + 1 .. NextHeader(a, p) - 1 : a[x].kind # "header"

MemberAt(a) ==
  [p \in 1 .. Len(a) |->
     [name |-> a[p].name,
      content |-> [b \in 1 .. HeaderSize(a[p]) |->
        a[p + 1 + (b - 1) \div BLOCK_SIZE].bytes[((b - 1) % BLOCK_SIZE) + 1]]]]

\* Where the complete members of an archive start, from its front, and where they end.
Starts(a) ==
  LET from[p \in 1 .. Len(a) + 1] ==
        IF Complete(a, p) THEN <<p>> \o from[NextHeader(a, p)] ELSE <<>>
  IN from[1]

End(a) == LET starts == Starts(a) IN IF starts = <<>> THEN 1 ELSE NextHeader(a, Last(starts))

Members(a) == LET starts == Starts(a) IN [m \in DOMAIN starts |-> MemberAt(a)[starts[m]]]

\* Two zero blocks, and only they are behind the last member.
Closed(a) ==
  Len(a) > 1 /\ a[Len(a)] = Zero /\ a[Len(a) - 1] = Zero /\ End(a) = Len(a) - 1

\* The files whose header or data is still to be written.
Todo ==
  LET complete == \/ stage = "stat" /\ Blocks(Len(disk[files[k + 1]])) = 0
                  \/ stage = "data" /\ j = Blocks(src_size)
  IN IF stage \in {"header", "stat", "data"}
     THEN SubSeq(files, IF complete THEN k + 2 ELSE k + 1, Len(files))
     ELSE <<>>

\* minitar.h: an archive is a log of versions.  Whatever the lists of files and
\* their sizes, its complete members are what create, append and update added, in
\* order, and it is closed by two zero blocks between commands, until something damages
\* it: a failure, also one the commands do not notice, or a file that changes its size.
Log == INSTANCE ArchiveLog WITH
         members <- Members(archive), todo <- Todo, closed <- Closed(archive),
         intact <- ~damaged
LogSpec == Log!LogSpec

\* Whatever fails or changes while an archive is written, only creating it anew takes
\* complete versions away, or opening it although its footer is missing or overlaid.
EarlierKept ==
  [][ \/ archive' = <<>>
      \/ stage = "idle" /\ ~Closed(archive)
      \/ LET before == Members(archive)
             after == Members(archive')
         IN IsPrefix(before, after) ]_archive

\* minitar.h: extraction leaves the most recently added version of every file in the
\* archive, and no byte more or less of it.
ExtractsLatest ==
  stage = "open" /\ k = Len(files) /\ ~damaged =>
    \A m \in DOMAIN Members(archive) :
      (\A later \in DOMAIN Members(archive) :
         later > m => Members(archive)[later].name # Members(archive)[m].name)
      => disk[Members(archive)[m].name] = Members(archive)[m].content
===============================================================================
