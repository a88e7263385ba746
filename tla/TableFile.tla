------------------------------- MODULE TableFile -------------------------------
(***************************************************************************)
(* Connections and the files they make: read_csv and read_json, spell,     *)
(* to_fls with its header, rowgroups, table descriptor and footer,         *)
(* verify_fls, and a TableReader that reads the rowgroups one by one while *)
(* other connections work.                                                 *)
(*                                                                         *)
(* A file is the sequence of what has been appended to it, and an offset   *)
(* is a position in that sequence, counted from 0.  What the encoder does  *)
(* inside a rowgroup is the subject of RowgroupEncoder and                 *)
(* ExpressionChains; here a rowgroup is written with the expressions the   *)
(* wizard spelled for some rowgroup, and reads back if they were spelled   *)
(* for this one, after it was prepared.                                    *)
(*                                                                         *)
(* A to_fls may stop between any two appends or inside one: it throws, and *)
(* the connection lives on, or the process ends.  What was appended before *)
(* stays.                                                                  *)
(***************************************************************************)
EXTENDS Integers, Sequences, SequencesExt

CONSTANTS
  Conns,      \* the connections
  Files,      \* the paths of .fls files
  Dirs,       \* the directories
  DirOf,      \* the directory of each path (parent_path)
  Rowgroups,  \* the contents of a rowgroup
  Tables,     \* the tables in the directories of CSV and JSON files
  Calls,      \* what clients do beyond the calls of the repository's own ones
  None,       \* a null pointer, or no such file
  Junk        \* what is read where nothing, or something else, was written

ASSUME DirOfAssumption == DirOf \in [Files -> Dirs]
ASSUME TablesAssumption == Tables \subseteq Seq(Rowgroups)
ASSUME CallsAssumption == Calls \subseteq {"reload", "spell"}

\* A rowgroup with the expressions chosen for it, before or after prepare_rowgroup.
Spelling == [of : Rowgroups, prepared : BOOLEAN]

\* TableDescriptorT: for each rowgroup its expressions and its m_offset, and
\* the m_table_binary_size.
TableDescriptor == [spelling : Seq(Spelling), offset : Seq(Nat), binary_size : Nat]

ASSUME NoneAssumption ==
  /\ None \notin Files \cup Tables \cup TableDescriptor \cup Rowgroups \cup {Junk}
  /\ Junk \notin TableDescriptor

VARIABLES
  conn,      \* Connection: m_table, m_table_descriptor, m_config.inline_footer
  job,       \* the to_fls each connection is in the middle of
  disk,      \* the files
  external,  \* table_descriptor.fbb of each directory
  reader,    \* an open TableReader
  promised,  \* history: the table the last to_fls of each path was called for
  described  \* history: the path table_descriptor.fbb was last written for

vars == <<conn, job, disk, external, reader, promised, described>>

-----------------------------------------------------------------------------
(* What stands in a file *)

FileHeader(inline) == [kind |-> "header", inline_footer |-> inline]
RowgroupCell(r, s) == [kind |-> "rowgroup", rowgroup |-> r, spelling |-> s]
DescriptorCell(td) == [kind |-> "descriptor", td |-> td]
FileFooter(at)     == [kind |-> "footer", table_descriptor_offset |-> at]
Torn               == [kind |-> "torn"]

Cell ==
  {FileHeader(i) : i \in BOOLEAN} \cup {Torn}
  \cup [kind : {"rowgroup"}, rowgroup : Rowgroups, spelling : Spelling]
  \cup [kind : {"descriptor"}, td : TableDescriptor]
  \cup [kind : {"footer"}, table_descriptor_offset : Nat]

\* What stands at an offset of a file.
At(cells, o) == IF o + 1 \in DOMAIN cells THEN cells[o + 1] ELSE Torn

\* verify_fls: a whole header in front, a whole footer behind.
Verified(f) ==
  /\ disk[f] # None
  /\ At(disk[f], 0).kind = "header"
  /\ At(disk[f], Len(disk[f]) - 1).kind = "footer"

\* The table descriptor the constructor of TableReader finds for a verified file.
DescriptorOf(f) ==
  LET cells  == disk[f]
      inside == At(cells, Last(cells).table_descriptor_offset)
  IN IF cells[1].inline_footer
       THEN IF inside.kind = "descriptor" THEN inside.td ELSE Junk
       ELSE external[DirOf[f]]

\* That descriptor was written for f: it is inside, or no to_fls of another path
\* has replaced the one next to it.
OwnDescriptor(f) == disk[f][1].inline_footer \/ described[DirOf[f]] = f

\* Rowgroup i of a file, read through a descriptor: the columns decode if they
\* were encoded with the expressions of the descriptor, and with expressions
\* that were spelled for them.
ReadRowgroup(f, td, i) ==
  LET cell == At(disk[f], td.offset[i])
  IN IF /\ cell.kind = "rowgroup"
        /\ cell.spelling = td.spelling[i]
        /\ cell.spelling = [of |-> cell.rowgroup, prepared |-> TRUE]
       THEN cell.rowgroup
       ELSE Junk

\* TableReader::materialize.
ReadBack(f) ==
  LET td == DescriptorOf(f)
  IN IF td \in {Junk, None} THEN Junk
     ELSE [i \in DOMAIN td.offset |-> ReadRowgroup(f, td, i)]

-----------------------------------------------------------------------------

NewConnection == [table |-> None, prepared |-> FALSE, td |-> None, inline_footer |-> FALSE]

\* The connection with another table and descriptor; the configuration stays.
Holding(cn, table, prepared, td) ==
  [table |-> table, prepared |-> prepared, td |-> td, inline_footer |-> cn.inline_footer]

\* Where a to_fls stands: what it has written, and the locals of Encoder::encode.
ToFls(f, done, i, offset) ==
  [file |-> f, done |-> done, rowgroup_idx |-> i, cur_rowgroup_offset |-> offset]

Init ==
  /\ conn = [c \in Conns |-> NewConnection]
  /\ job = [c \in Conns |-> None]
  /\ disk = [f \in Files |-> None]
  /\ external = [d \in Dirs |-> None]
  /\ reader = None
  /\ promised = [f \in Files |-> None]
  /\ described = [d \in Dirs |-> None]

Idle(c) == job[c] = None

BeingWritten(f) == \E c \in Conns : ~ Idle(c) /\ job[c].file = f

\* read_csv, read_json: the table is replaced, the descriptor is not.  The
\* clients in the repository reset a connection that has one.
Load(c, t) ==
  /\ Idle(c) /\ (conn[c].td = None \/ "reload" \in Calls)
  /\ conn' = [conn EXCEPT ![c] = Holding(conn[c], t, FALSE, conn[c].td)]
  /\ UNCHANGED <<job, disk, external, reader, promised, described>>

\* reset
Reset(c) ==
  /\ Idle(c)
  /\ conn' = [conn EXCEPT ![c] = Holding(conn[c], None, FALSE, None)]
  /\ UNCHANGED <<job, disk, external, reader, promised, described>>

InlineFooter(c) ==
  /\ Idle(c)
  /\ conn' = [conn EXCEPT ![c].inline_footer = TRUE]
  /\ UNCHANGED <<job, disk, external, reader, promised, described>>

\* Wizard::Spell, with no rowgroup encoded yet.
Spelled(t, prepared) ==
  [spelling    |-> [i \in DOMAIN t |-> [of |-> t[i], prepared |-> prepared]],
   offset      |-> [i \in DOMAIN t |-> 0],
   binary_size |-> 0]

\* spell, called by a client.
Spell(c) ==
  /\ Idle(c) /\ conn[c].table # None
  /\ conn[c].prepared \/ "spell" \in Calls
  /\ conn' = [conn EXCEPT ![c].td = Spelled(conn[c].table, conn[c].prepared)]
  /\ UNCHANGED <<job, disk, external, reader, promised, described>>

-----------------------------------------------------------------------------
(* to_fls *)

MayCreate(f) == disk[f] = None

\* Mutant: the table is spelled first and prepared afterwards.
SpelledThenPrepared(cn) == IF cn.td = None THEN Spelled(cn.table, FALSE) ELSE cn.td

\* The descriptor to_fls encodes with: the table has been prepared before.
DescriptorFor(cn) == IF cn.td = None THEN Spelled(cn.table, TRUE) ELSE cn.td

\* Mutant: offsets are counted without the header.
OffsetWithoutHeader == 0

\* cur_rowgroup_offset starts at sizeof(FileHeader).
FirstOffset == 1

\* The checks, prepare_table and spell.  Two connections do not write one path
\* at the same time.
StartToFls(c, f) ==
  /\ Idle(c) /\ MayCreate(f) /\ conn[c].table # None
  /\ ~ BeingWritten(f)
  /\ conn' = [conn EXCEPT ![c] = Holding(conn[c], conn[c].table, TRUE, DescriptorFor(conn[c]))]
  /\ job' = [job EXCEPT ![c] = ToFls(f, "nothing", 0, FirstOffset)]
  /\ promised' = [promised EXCEPT ![f] = conn[c].table]
  /\ UNCHANGED <<disk, external, reader, described>>

Appended(f, cell) == [disk EXCEPT ![f] = Append(IF @ = None THEN <<>> ELSE @, cell)]

\* FileHeader::Write.
WriteHeader(c) ==
  /\ ~ Idle(c) /\ job[c].done = "nothing"
  /\ disk' = Appended(job[c].file, FileHeader(conn[c].inline_footer))
  /\ job' = [job EXCEPT ![c].done = "header"]
  /\ UNCHANGED <<conn, external, reader, promised, described>>

\* Mutant: the loop has a turn behind the last rowgroup.
RowgroupsLeftLong(c) == job[c].rowgroup_idx <= Len(conn[c].table)

RowgroupsLeft(c) == job[c].rowgroup_idx < Len(conn[c].table)

OffsetAfter(c) == job[c].cur_rowgroup_offset + 1

\* The m_offset of rowgroup i.
OffsetNoted(td, i, offset) == [td EXCEPT !.offset = [@ EXCEPT ![i] = offset]]

\* One turn of the loop of Encoder::encode.  Its descriptor has a rowgroup at
\* rowgroup_idx, or the access is out of bounds and the process ends.
AppendRowgroup(c) ==
  /\ ~ Idle(c) /\ job[c].done = "header" /\ RowgroupsLeft(c)
  /\ LET i  == job[c].rowgroup_idx + 1
         td == conn[c].td
     IN /\ i \in DOMAIN td.spelling
        /\ disk' = Appended(job[c].file, RowgroupCell(conn[c].table[i], td.spelling[i]))
        /\ conn' = [conn EXCEPT ![c].td = OffsetNoted(td, i, job[c].cur_rowgroup_offset)]
        /\ job' = [job EXCEPT ![c] = ToFls(job[c].file, "header", i, OffsetAfter(c))]
  /\ UNCHANGED <<external, reader, promised, described>>

\* Mutant: m_table_binary_size keeps its value.
BinarySizeKept(c) == conn[c].td.binary_size

BinarySize(c) == job[c].cur_rowgroup_offset

\* x is written over the table_descriptor.fbb next to f, whichever file it was for.
ReplaceExternal(f, x) ==
  /\ external' = [external EXCEPT ![DirOf[f]] = x]
  /\ described' = [described EXCEPT ![DirOf[f]] = f]
  /\ UNCHANGED disk

AppendCell(f, cell) == disk' = Appended(f, cell) /\ UNCHANGED <<external, described>>

\* The end of Encoder::encode and FlatBuffers::Write: into the file, or next to
\* it.
WriteDescriptor(c) ==
  /\ ~ Idle(c) /\ job[c].done = "header" /\ ~ RowgroupsLeft(c)
  /\ LET td == [conn[c].td EXCEPT !.binary_size = BinarySize(c)]
     IN /\ conn' = [conn EXCEPT ![c].td = td]
        /\ IF conn[c].inline_footer
             THEN AppendCell(job[c].file, DescriptorCell(td))
             ELSE ReplaceExternal(job[c].file, td)
  /\ job' = [job EXCEPT ![c].done = "descriptor"]
  /\ UNCHANGED <<reader, promised>>

\* FileFooter::Write, and to_fls returns.
WriteFooter(c) ==
  /\ ~ Idle(c) /\ job[c].done = "descriptor"
  /\ disk' = Appended(job[c].file, FileFooter(conn[c].td.binary_size))
  /\ job' = [job EXCEPT ![c] = None]
  /\ UNCHANGED <<conn, external, reader, promised, described>>

\* to_fls stops inside the write it was about to do.
TearWrite(c) ==
  IF job[c].done = "header" /\ ~ RowgroupsLeft(c) /\ ~ conn[c].inline_footer
    THEN ReplaceExternal(job[c].file, Junk)
    ELSE AppendCell(job[c].file, Torn)

\* An exception leaves to_fls: an expression that cannot be encoded, a stream
\* that cannot be opened or written.
Throw(c) ==
  /\ ~ Idle(c)
  /\ TearWrite(c) \/ UNCHANGED <<disk, external, described>>
  /\ job' = [job EXCEPT ![c] = None]
  /\ UNCHANGED <<conn, reader, promised>>

\* The process ends, and another starts with a connection of its own.
Crash(c) ==
  /\ (~ Idle(c) /\ TearWrite(c)) \/ UNCHANGED <<disk, external, described>>
  /\ job' = [job EXCEPT ![c] = None]
  /\ conn' = [conn EXCEPT ![c] = NewConnection]
  /\ UNCHANGED <<reader, promised>>

-----------------------------------------------------------------------------
(* Readers and the file system *)

\* verify_fls, then read_fls: the TableReader keeps its own copy of the
\* descriptor.  One reader at a time is followed; own is a history of whether
\* that descriptor was the one of its file.
ReadFls(f) ==
  /\ reader = None
  /\ Verified(f) /\ DescriptorOf(f) \notin {Junk, None}
  /\ reader' = [file |-> f, td |-> DescriptorOf(f), table |-> <<>>, own |-> OwnDescriptor(f)]
  /\ UNCHANGED <<conn, job, disk, external, promised, described>>

\* Mutant: the loop ends before the last rowgroup.
RowgroupsToReadShort == Len(reader.table) + 1 < Len(reader.td.offset)

RowgroupsToRead == Len(reader.table) < Len(reader.td.offset)

\* Mutant: the descriptor is loaded again with each rowgroup.
DescriptorReloaded ==
  IF DescriptorOf(reader.file) \in TableDescriptor THEN DescriptorOf(reader.file) ELSE reader.td

\* The descriptor get_rowgroup_reader reads a rowgroup with.
DescriptorKept == reader.td

\* One turn of the loop of materialize or to_csv: the path is opened anew,
\* and the rowgroup is read now.
MaterializeRowgroup ==
  /\ reader # None /\ RowgroupsToRead
  /\ LET i == Len(reader.table) + 1
     IN reader' = [reader EXCEPT !.table = Append(@, ReadRowgroup(reader.file, DescriptorKept, i))]
  /\ UNCHANGED <<conn, job, disk, external, promised, described>>

CloseReader ==
  /\ reader # None /\ reader' = None
  /\ UNCHANGED <<conn, job, disk, external, promised, described>>

\* Somebody removes a file that no to_fls is writing.  A table_descriptor.fbb
\* stays.  A TableReader holds no lock on its file: it may be removed under it.
\* What such a reader does next is not followed, it throws, or reads what a
\* later to_fls has put there.
RemoveFile(f) ==
  /\ disk[f] # None /\ ~ BeingWritten(f)
  /\ disk' = [disk EXCEPT ![f] = None]
  /\ promised' = [promised EXCEPT ![f] = None]
  /\ reader' = IF reader # None /\ reader.file = f THEN None ELSE reader
  /\ UNCHANGED <<conn, job, external, described>>

Next ==
  \/ \E c \in Conns :
       \/ \E t \in Tables : Load(c, t)
       \/ Reset(c) \/ InlineFooter(c) \/ Spell(c)
       \/ \E f \in Files : StartToFls(c, f)
       \/ WriteHeader(c) \/ AppendRowgroup(c) \/ WriteDescriptor(c) \/ WriteFooter(c)
       \/ Throw(c) \/ Crash(c)
  \/ \E f \in Files : ReadFls(f) \/ RemoveFile(f)
  \/ MaterializeRowgroup \/ CloseReader

Spec == Init /\ [][Next]_vars

ToFlsStep(c) == WriteHeader(c) \/ AppendRowgroup(c) \/ WriteDescriptor(c) \/ WriteFooter(c)

\* A call that has begun goes on, in the thread of its caller: to_fls until it
\* returns or is stopped, and materialize until it has taken all rowgroups.
\* That a client calls anything at all is not assumed.
FairSpec ==
  /\ Spec
  /\ \A c \in Conns : WF_vars(ToFlsStep(c))
  /\ WF_vars(MaterializeRowgroup)

-----------------------------------------------------------------------------
(* Properties *)

Connection ==
  [table : Tables \cup {None}, prepared : BOOLEAN, td : TableDescriptor \cup {None},
   inline_footer : BOOLEAN]

Job ==
  [file : Files, done : {"nothing", "header", "descriptor"}, rowgroup_idx : Nat,
   cur_rowgroup_offset : Nat \ {0}]

Reader ==
  [file : Files, td : TableDescriptor, table : Seq(Rowgroups \cup {Junk}), own : BOOLEAN]

ASSUME AbsentAssumption == None \notin Job \cup Reader \cup Seq(Cell)

\* Every variable keeps its type, and a connection in to_fls has a table, that
\* is prepared, and a descriptor.
TypeOK ==
  /\ conn \in [Conns -> Connection]
  /\ job \in [Conns -> Job \cup {None}]
  /\ \A c \in Conns : job[c] # None =>
       /\ conn[c].table # None /\ conn[c].prepared /\ conn[c].td # None
       /\ job[c].rowgroup_idx \in 0 .. Len(conn[c].table)
  /\ disk \in [Files -> Seq(Cell) \cup {None}]
  /\ external \in [Dirs -> TableDescriptor \cup {None, Junk}]
  /\ reader \in Reader \cup {None}
  /\ promised \in [Files -> Tables \cup {None}]
  /\ described \in [Dirs -> Files \cup {None}]

\* A file verify_fls accepts holds the table its to_fls was called for, whole
\* and readable, until the descriptor next to it is replaced: whatever the
\* connection wrote before, wherever an earlier attempt stopped (a retry never
\* completes what a failed to_fls left behind), and whichever other files were
\* written since.
VerifiedComplete ==
  \A f \in Files : Verified(f) /\ OwnDescriptor(f) => ReadBack(f) = promised[f]

\* What the round-trip test takes for granted: a file verify_fls accepts reads
\* back the table its to_fls was called for, whatever is in its directory.
VerifiedReadsBack == \A f \in Files : Verified(f) => ReadBack(f) = promised[f]

\* A reader that was opened on a file with its own descriptor hands over the
\* rowgroups of the table the file was written for, each of them: also when
\* to_fls replaces the descriptor next to it for another path, or stops in the
\* middle of that, before the reader is done.
ReaderSeesPublished ==
  reader # None /\ reader.own => IsPrefix(reader.table, promised[reader.file])

\* The table each path holds, for a client that verifies it and reads it.
catalog ==
  [f \in Files |-> IF Verified(f) /\ OwnDescriptor(f) THEN ReadBack(f) ELSE None]

FC == INSTANCE FileCatalog

\* to_fls publishes a table in one step, its last append, and afterwards nothing
\* changes it: it is there until its file is removed, or a to_fls of another path
\* replaces the descriptor next to it.
ImplementsFileCatalog == FC!Spec

\* From when on nothing stops a to_fls any more, each one publishes its table,
\* also those that retry what was stopped, and those of a connection that an
\* exception has left with a half updated descriptor.
PublishedUnlessStopped ==
  <>[][\A c \in Conns : ~ Idle(c) /\ job'[c] = None => WriteFooter(c)]_vars =>
    \A f \in Files :
      <>[](BeingWritten(f) =>
             <>(Verified(f) /\ (OwnDescriptor(f) => ReadBack(f) = promised[f])))

\* A reader that was opened with the descriptor of its file and stays open has
\* all of the table in the end.
ReaderGetsTable ==
  reader # None ~>
    (reader = None \/ ~ reader.own \/ reader.table = promised[reader.file])
=============================================================================
