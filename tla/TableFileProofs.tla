--------------------------- MODULE TableFileProofs ---------------------------
(***************************************************************************)
(* What holds of TableFile for every number of connections, paths,         *)
(* directories, tables and rowgroups, and every order of calls, stops and  *)
(* restarts: types, and that what verify_fls accepts is whole, with inline *)
(* and with external footers, and for a reader that is open meanwhile --   *)
(* where no client loads a second table without a reset or spells one that *)
(* was not prepared.  The run second_load shows that the first of these is *)
(* needed.                                                                 *)
(***************************************************************************)
EXTENDS TableFile, TLAPS

-----------------------------------------------------------------------------
(* Records in functions *)

\* to_fls gives its connection another descriptor.
LEMMA DescriptorSet ==
  \A c \in Conns, td \in TableDescriptor :
    conn \in [Conns -> Connection] =>
      LET cs == [conn EXCEPT ![c].td = td]
      IN  /\ cs \in [Conns -> Connection]
          /\ cs[c].table = conn[c].table /\ cs[c].prepared = conn[c].prepared /\ cs[c].td = td
          /\ cs[c].inline_footer = conn[c].inline_footer
          /\ \A d \in Conns \ {c} : cs[d] = conn[d]
BY DEF Connection

\* A to_fls gets to another point.
LEMMA ToFlsType ==
  \A c \in Conns, f \in Files, done \in {"nothing", "header", "descriptor"}, i \in Nat, o \in Nat \ {0} :
    job \in [Conns -> Job \cup {None}] =>
      LET js == [job EXCEPT ![c] = ToFls(f, done, i, o)]
      IN  /\ js \in [Conns -> Job \cup {None}] /\ js[c] \in Job
          /\ js[c].file = f /\ js[c].done = done /\ js[c].rowgroup_idx = i
          /\ js[c].cur_rowgroup_offset = o
          /\ \A d \in Conns \ {c} : js[d] = job[d]
BY DEF Job, ToFls

\* One write of a to_fls is done.
LEMMA DoneType ==
  \A c \in Conns, done \in {"nothing", "header", "descriptor"} :
    job \in [Conns -> Job \cup {None}] /\ job[c] \in Job =>
      LET js == [job EXCEPT ![c].done = done]
      IN  /\ js \in [Conns -> Job \cup {None}] /\ js[c] \in Job
          /\ js[c].file = job[c].file /\ js[c].done = done
          /\ js[c].rowgroup_idx = job[c].rowgroup_idx
          /\ js[c].cur_rowgroup_offset = job[c].cur_rowgroup_offset
          /\ \A d \in Conns \ {c} : js[d] = job[d]
BY DEF Job

\* Wizard::Spell makes a table descriptor with an expression for each rowgroup.
LEMMA SpelledType ==
  \A t \in Tables, p \in BOOLEAN : Spelled(t, p) \in TableDescriptor
<1> SUFFICES ASSUME NEW t \in Tables, NEW p \in BOOLEAN
             PROVE  Spelled(t, p) \in TableDescriptor
  OBVIOUS
<1>1. t \in Seq(Rowgroups)
  BY TablesAssumption
<1>2. [i \in DOMAIN t |-> [of |-> t[i], prepared |-> p]] \in Seq(Spelling)
  <2>1. Len(t) \in Nat /\ DOMAIN t = 1 .. Len(t) /\ \A i \in 1 .. Len(t) : t[i] \in Rowgroups
    BY <1>1
  <2>2. [i \in 1 .. Len(t) |-> [of |-> t[i], prepared |-> p]] \in [1 .. Len(t) -> Spelling]
    BY <2>1 DEF Spelling
  <2> QED BY <2>1, <2>2
<1>3. [i \in DOMAIN t |-> 0] \in Seq(Nat)
  BY <1>1
<1> QED BY <1>2, <1>3 DEF Spelled, TableDescriptor

\* The offset of one rowgroup is set.
LEMMA OffsetSet ==
  \A td \in TableDescriptor, o \in Nat : \A i \in DOMAIN td.offset :
    LET new == OffsetNoted(td, i, o)
    IN  /\ new \in TableDescriptor /\ new.spelling = td.spelling
        /\ new.binary_size = td.binary_size
        /\ DOMAIN new.offset = DOMAIN td.offset
        /\ new.offset[i] = o
        /\ \A k \in DOMAIN td.offset \ {i} : new.offset[k] = td.offset[k]
<1> SUFFICES ASSUME NEW td \in TableDescriptor, NEW o \in Nat, NEW i \in DOMAIN td.offset
             PROVE  LET new == OffsetNoted(td, i, o)
                    IN  /\ new \in TableDescriptor /\ new.spelling = td.spelling
                        /\ new.binary_size = td.binary_size
                        /\ DOMAIN new.offset = DOMAIN td.offset
                        /\ new.offset[i] = o
                        /\ \A k \in DOMAIN td.offset \ {i} : new.offset[k] = td.offset[k]
  OBVIOUS
<1>1. PICK os : os = [td.offset EXCEPT ![i] = o]
  OBVIOUS
<1>2. /\ os \in Seq(Nat) /\ DOMAIN os = DOMAIN td.offset /\ os[i] = o
      /\ \A k \in DOMAIN td.offset \ {i} : os[k] = td.offset[k]
  BY <1>1 DEF TableDescriptor
<1>3. PICK new : new = [td EXCEPT !.offset = os]
  OBVIOUS
<1>4. /\ new \in TableDescriptor /\ new.spelling = td.spelling
      /\ new.binary_size = td.binary_size /\ new.offset = os
  BY <1>2, <1>3 DEF TableDescriptor
<1>5. new = OffsetNoted(td, i, o)
  BY <1>1, <1>3 DEF OffsetNoted
<1> QED BY <1>2, <1>4, <1>5

\* The size of the table is set.
LEMMA BinarySizeSet ==
  \A td \in TableDescriptor, n \in Nat :
    LET new == [td EXCEPT !.binary_size = n]
    IN  /\ new \in TableDescriptor /\ new.spelling = td.spelling
        /\ new.offset = td.offset /\ new.binary_size = n
BY DEF TableDescriptor

\* One more cell stands in a file, and no other file is touched.
LEMMA AppendedFacts ==
  ASSUME NEW f \in Files, NEW cell \in Cell, disk \in [Files -> Seq(Cell) \cup {None}]
  PROVE  /\ Appended(f, cell) \in [Files -> Seq(Cell) \cup {None}]
         /\ Appended(f, cell)[f] \in Seq(Cell)
         /\ \A g \in Files \ {f} : Appended(f, cell)[g] = disk[g]
         /\ disk[f] = None => Len(Appended(f, cell)[f]) = 1 /\ Appended(f, cell)[f][1] = cell
         /\ disk[f] # None => /\ disk[f] \in Seq(Cell)
                              /\ Appended(f, cell)[f] = Append(disk[f], cell)
<1>1. PICK before : before = IF disk[f] = None THEN <<>> ELSE disk[f]
  OBVIOUS
<1>2. before \in Seq(Cell) /\ Append(before, cell) \in Seq(Cell)
  BY <1>1
<1>3. PICK grown : grown = Append(before, cell)
  OBVIOUS
<1>4. Appended(f, cell) = [disk EXCEPT ![f] = grown]
  BY <1>1, <1>3 DEF Appended
<1>5. grown \in Seq(Cell) /\ (disk[f] = None => Len(grown) = 1 /\ grown[1] = cell)
  BY <1>1, <1>2, <1>3
<1>6. disk[f] # None => disk[f] \in Seq(Cell) /\ grown = Append(disk[f], cell)
  BY <1>1, <1>3
<1> QED BY <1>4, <1>5, <1>6

\* The cells to_fls appends.
LEMMA CellType ==
  /\ Torn \in Cell
  /\ \A i \in BOOLEAN : FileHeader(i) \in Cell
  /\ \A r \in Rowgroups, s \in Spelling : RowgroupCell(r, s) \in Cell
  /\ \A td \in TableDescriptor : DescriptorCell(td) \in Cell
  /\ \A n \in Nat : FileFooter(n) \in Cell
BY DEF Cell, Torn, FileHeader, RowgroupCell, DescriptorCell, FileFooter

\* A table descriptor found in a file is one.
LEMMA CellDescriptor == \A x \in Cell : x.kind = "descriptor" => x.td \in TableDescriptor
BY DEF Cell, Torn, FileHeader

\* What is read of a rowgroup is a rowgroup, or junk.
LEMMA ReadRowgroupType ==
  \A f \in Files, td \in TableDescriptor, i \in Nat :
    disk[f] \in Seq(Cell) => ReadRowgroup(f, td, i) \in Rowgroups \cup {Junk}
<1>1. \A x \in Cell : x.kind = "rowgroup" => x.rowgroup \in Rowgroups
  BY DEF Cell, Torn, FileHeader
<1>2. \A cells \in Seq(Cell) : \A o : At(cells, o) \in Cell
  BY CellType DEF At
<1> QED BY <1>1, <1>2 DEF ReadRowgroup

\* The descriptor of a file that holds one is a table descriptor.
LEMMA DescriptorType ==
  \A f \in Files :
    disk[f] \in Seq(Cell) /\ external \in [Dirs -> TableDescriptor \cup {None, Junk}] =>
      DescriptorOf(f) \in TableDescriptor \cup {None, Junk}
<1> SUFFICES ASSUME NEW f \in Files, disk[f] \in Seq(Cell),
                    external \in [Dirs -> TableDescriptor \cup {None, Junk}]
             PROVE  DescriptorOf(f) \in TableDescriptor \cup {None, Junk}
  OBVIOUS
<1>1. PICK inside : inside = At(disk[f], Last(disk[f]).table_descriptor_offset)
  OBVIOUS
<1>2. inside \in Cell
  BY <1>1, CellType DEF At
<1>3. inside.kind = "descriptor" => inside.td \in TableDescriptor
  BY <1>2, CellDescriptor
<1>4. external[DirOf[f]] \in TableDescriptor \cup {None, Junk}
  BY DirOfAssumption
<1>5. \/ DescriptorOf(f) = external[DirOf[f]] \/ DescriptorOf(f) = Junk
      \/ inside.kind = "descriptor" /\ DescriptorOf(f) = inside.td
  BY <1>1 DEF DescriptorOf
<1> QED BY <1>3, <1>4, <1>5

-----------------------------------------------------------------------------
(* Types *)

\* A descriptor has an offset for each rowgroup, and the file of an open
\* reader is there.
TypeInv ==
  /\ TypeOK
  /\ \A c \in Conns : conn[c].td # None => DOMAIN conn[c].td.offset = DOMAIN conn[c].td.spelling
  /\ reader # None => disk[reader.file] # None

\* A call on an idle connection changes nothing but the connection.
LEMMA CallType ==
  ASSUME TypeInv, NEW c \in Conns, Idle(c), UNCHANGED <<job, disk, external, reader, promised, described>>,
         conn' \in [Conns -> Connection], \A d \in Conns \ {c} : conn'[d] = conn[d],
         conn'[c].td # None => DOMAIN conn'[c].td.offset = DOMAIN conn'[c].td.spelling
  PROVE  TypeInv'
<1>1. \A d \in Conns : job'[d] # None => d # c /\ job'[d] = job[d] /\ conn'[d] = conn[d]
  BY DEF Idle
<1>2. \A d \in Conns : job'[d] # None =>
        /\ conn'[d].table # None /\ conn'[d].prepared /\ conn'[d].td # None
        /\ job'[d].rowgroup_idx \in 0 .. Len(conn'[d].table)
  BY <1>1 DEF TypeInv, TypeOK
<1>3. \A d \in Conns : conn'[d].td # None =>
        DOMAIN conn'[d].td.offset = DOMAIN conn'[d].td.spelling
  BY DEF TypeInv
<1> QED BY <1>2, <1>3 DEF TypeInv, TypeOK

\* A descriptor that is spelled has an offset for each rowgroup.
LEMMA SpelledSameLength ==
  \A t, p : DOMAIN Spelled(t, p).offset = DOMAIN Spelled(t, p).spelling
BY DEF Spelled

\* The calls on an idle connection.
LEMMA CallsType ==
  ASSUME TypeInv, NEW c \in Conns,
         (\E t \in Tables : Load(c, t)) \/ Reset(c) \/ InlineFooter(c) \/ Spell(c)
  PROVE  TypeInv'
<1>1. /\ conn \in [Conns -> Connection] /\ conn[c].td \in TableDescriptor \cup {None}
      /\ conn[c].table \in Tables \cup {None} /\ conn[c].prepared \in BOOLEAN
      /\ conn[c].td # None => DOMAIN conn[c].td.offset = DOMAIN conn[c].td.spelling
  BY DEF TypeInv, TypeOK, Connection
<1>2. ASSUME NEW t \in Tables, Load(c, t) PROVE TypeInv'
  <2>1. conn' = [conn EXCEPT ![c] = Holding(conn[c], t, FALSE, conn[c].td)]
        /\ Idle(c) /\ UNCHANGED <<job, disk, external, reader, promised, described>>
    BY <1>2 DEF Load
  <2>2. /\ conn' \in [Conns -> Connection] /\ \A d \in Conns \ {c} : conn'[d] = conn[d]
        /\ conn'[c].td = conn[c].td
    BY <1>1, <2>1 DEF Holding, Connection
  <2> QED BY <1>1, <2>1, <2>2, CallType
<1>3. ASSUME Reset(c) PROVE TypeInv'
  <2>1. conn' = [conn EXCEPT ![c] = Holding(conn[c], None, FALSE, None)]
        /\ Idle(c) /\ UNCHANGED <<job, disk, external, reader, promised, described>>
    BY <1>3 DEF Reset
  <2>2. /\ conn' \in [Conns -> Connection] /\ \A d \in Conns \ {c} : conn'[d] = conn[d]
        /\ conn'[c].td = None
    BY <1>1, <2>1 DEF Holding, Connection
  <2> QED BY <2>1, <2>2, CallType
<1>4. ASSUME InlineFooter(c) PROVE TypeInv'
  <2>1. /\ conn' \in [Conns -> Connection] /\ \A d \in Conns \ {c} : conn'[d] = conn[d]
        /\ conn'[c].td = conn[c].td
    BY <1>1, <1>4 DEF InlineFooter, Connection
  <2> QED BY <1>1, <1>4, <2>1, CallType DEF InlineFooter
<1>5. ASSUME Spell(c) PROVE TypeInv'
  <2>1. PICK td : td = Spelled(conn[c].table, conn[c].prepared)
    OBVIOUS
  <2>2. td \in TableDescriptor /\ DOMAIN td.offset = DOMAIN td.spelling
    BY <1>1, <1>5, <2>1, SpelledType, SpelledSameLength DEF Spell
  <2>3. conn' = [conn EXCEPT ![c].td = td]
        /\ Idle(c) /\ UNCHANGED <<job, disk, external, reader, promised, described>>
    BY <1>5, <2>1 DEF Spell
  <2> QED BY <1>1, <2>2, <2>3, DescriptorSet, CallType
<1> QED BY <1>2, <1>3, <1>4, <1>5

-----------------------------------------------------------------------------
(* What the steps of to_fls do *)

\* A connection in to_fls has what to_fls needs.
LEMMA JobFacts ==
  ASSUME TypeInv, NEW c \in Conns, ~ Idle(c)
  PROVE  /\ job[c] \in Job /\ job[c].file \in Files /\ job[c].rowgroup_idx \in Nat
         /\ job[c].cur_rowgroup_offset \in Nat \ {0}
         /\ conn \in [Conns -> Connection] /\ job \in [Conns -> Job \cup {None}]
         /\ disk \in [Files -> Seq(Cell) \cup {None}]
         /\ external \in [Dirs -> TableDescriptor \cup {None, Junk}]
         /\ conn[c].table \in Tables /\ conn[c].table \in Seq(Rowgroups)
         /\ Len(conn[c].table) \in Nat /\ job[c].rowgroup_idx <= Len(conn[c].table)
         /\ conn[c].td \in TableDescriptor
         /\ DOMAIN conn[c].td.offset = DOMAIN conn[c].td.spelling
         /\ conn[c].prepared /\ conn[c].inline_footer \in BOOLEAN
<1>1. job[c] \in Job /\ conn[c] \in Connection
  BY DEF TypeInv, TypeOK, Idle
<1>2. conn[c].table # None /\ conn[c].td # None /\ conn[c].prepared
      /\ job[c].rowgroup_idx \in 0 .. Len(conn[c].table)
  BY DEF TypeInv, TypeOK, Idle
<1>3. conn[c].table \in Tables /\ conn[c].td \in TableDescriptor /\ conn[c].inline_footer \in BOOLEAN
  BY <1>1, <1>2 DEF Connection
<1>4. conn[c].table \in Seq(Rowgroups)
  BY <1>3, TablesAssumption
<1> QED BY <1>1, <1>2, <1>3, <1>4 DEF Job, TypeInv, TypeOK

\* to_fls begins: the descriptor is there or is spelled, and nothing is written.
LEMMA StartFacts ==
  ASSUME TypeInv, NEW c \in Conns, NEW f \in Files, StartToFls(c, f)
  PROVE  /\ Idle(c) /\ disk[f] = None /\ ~ BeingWritten(f)
         /\ conn[c].table \in Tables /\ DescriptorFor(conn[c]) \in TableDescriptor
         /\ DOMAIN DescriptorFor(conn[c]).offset = DOMAIN DescriptorFor(conn[c]).spelling
         /\ conn' \in [Conns -> Connection] /\ \A d \in Conns \ {c} : conn'[d] = conn[d]
         /\ conn'[c].table = conn[c].table /\ conn'[c].prepared
         /\ conn'[c].td = DescriptorFor(conn[c])
         /\ job' \in [Conns -> Job \cup {None}] /\ \A d \in Conns \ {c} : job'[d] = job[d]
         /\ job'[c] = ToFls(f, "nothing", 0, 1) /\ job'[c] \in Job
         /\ promised' \in [Files -> Tables \cup {None}] /\ promised'[f] = conn[c].table
         /\ \A g \in Files \ {f} : promised'[g] = promised[g]
         /\ UNCHANGED <<disk, external, reader, described>>
<1>1. /\ conn \in [Conns -> Connection] /\ job \in [Conns -> Job \cup {None}]
      /\ promised \in [Files -> Tables \cup {None}]
      /\ conn[c].td \in TableDescriptor \cup {None}
      /\ conn[c].table \in Tables
      /\ conn[c].td # None => DOMAIN conn[c].td.offset = DOMAIN conn[c].td.spelling
  BY DEF TypeInv, TypeOK, Connection, StartToFls
<1>2. PICK td : td = DescriptorFor(conn[c])
  OBVIOUS
<1>3. td \in TableDescriptor /\ DOMAIN td.offset = DOMAIN td.spelling
  BY <1>1, <1>2, SpelledType, SpelledSameLength DEF DescriptorFor
<1>4. conn' = [conn EXCEPT ![c] = Holding(conn[c], conn[c].table, TRUE, td)]
  BY <1>2 DEF StartToFls
<1>5. /\ conn' \in [Conns -> Connection] /\ \A d \in Conns \ {c} : conn'[d] = conn[d]
      /\ conn'[c].table = conn[c].table /\ conn'[c].prepared /\ conn'[c].td = td
  BY <1>1, <1>3, <1>4 DEF Holding, Connection
<1>6. PICK j : j = ToFls(f, "nothing", 0, 1)
  OBVIOUS
<1>7. j \in Job
  BY <1>6 DEF ToFls, Job
<1>8. job' = [job EXCEPT ![c] = j]
  BY <1>6 DEF StartToFls, FirstOffset
<1>9. job' \in [Conns -> Job \cup {None}] /\ job'[c] = j /\ \A d \in Conns \ {c} : job'[d] = job[d]
  BY <1>1, <1>7, <1>8
<1>10. /\ promised' \in [Files -> Tables \cup {None}] /\ promised'[f] = conn[c].table
       /\ \A g \in Files \ {f} : promised'[g] = promised[g]
  BY <1>1 DEF StartToFls
<1>11. Idle(c) /\ disk[f] = None /\ ~ BeingWritten(f) /\ UNCHANGED <<disk, external, reader, described>>
  BY DEF StartToFls, MayCreate
<1> QED BY <1>1, <1>2, <1>3, <1>5, <1>6, <1>7, <1>9, <1>10, <1>11

\* The header is appended.
LEMMA HeaderFacts ==
  ASSUME TypeInv, NEW c \in Conns, WriteHeader(c)
  PROVE  /\ ~ Idle(c) /\ job[c].done = "nothing"
         /\ disk' = Appended(job[c].file, FileHeader(conn[c].inline_footer))
         /\ FileHeader(conn[c].inline_footer) \in Cell
         /\ job' \in [Conns -> Job \cup {None}] /\ \A d \in Conns \ {c} : job'[d] = job[d]
         /\ job'[c] \in Job /\ job'[c].file = job[c].file /\ job'[c].done = "header"
         /\ job'[c].rowgroup_idx = job[c].rowgroup_idx
         /\ job'[c].cur_rowgroup_offset = job[c].cur_rowgroup_offset
         /\ UNCHANGED <<conn, external, reader, promised, described>>
<1>1. ~ Idle(c) /\ UNCHANGED <<conn, external, reader, promised, described>> /\ job[c].done = "nothing"
      /\ disk' = Appended(job[c].file, FileHeader(conn[c].inline_footer))
      /\ job' = [job EXCEPT ![c].done = "header"]
  BY DEF WriteHeader
<1>2. job \in [Conns -> Job \cup {None}] /\ job[c] \in Job /\ conn[c].inline_footer \in BOOLEAN
  BY <1>1, JobFacts
<1> QED BY <1>1, <1>2, CellType, DoneType

\* A rowgroup is appended, and its offset noted.
LEMMA RowgroupFacts ==
  ASSUME TypeInv, NEW c \in Conns, AppendRowgroup(c),
         NEW i, i = job[c].rowgroup_idx + 1
  PROVE  /\ ~ Idle(c) /\ job[c].done = "header"
         /\ i \in DOMAIN conn[c].table /\ i \in DOMAIN conn[c].td.spelling
         /\ RowgroupCell(conn[c].table[i], conn[c].td.spelling[i]) \in Cell
         /\ disk' = Appended(job[c].file, RowgroupCell(conn[c].table[i], conn[c].td.spelling[i]))
         /\ conn' \in [Conns -> Connection] /\ \A d \in Conns \ {c} : conn'[d] = conn[d]
         /\ conn'[c].table = conn[c].table /\ conn'[c].prepared = conn[c].prepared
         /\ conn'[c].inline_footer = conn[c].inline_footer
         /\ conn'[c].td \in TableDescriptor
         /\ conn'[c].td.spelling = conn[c].td.spelling
         /\ DOMAIN conn'[c].td.offset = DOMAIN conn[c].td.offset
         /\ conn'[c].td.offset[i] = job[c].cur_rowgroup_offset
         /\ \A k \in DOMAIN conn[c].td.offset \ {i} : conn'[c].td.offset[k] = conn[c].td.offset[k]
         /\ job' \in [Conns -> Job \cup {None}] /\ \A d \in Conns \ {c} : job'[d] = job[d]
         /\ job'[c] \in Job /\ job'[c].file = job[c].file /\ job'[c].done = "header"
         /\ job'[c].rowgroup_idx = i
         /\ job'[c].cur_rowgroup_offset = job[c].cur_rowgroup_offset + 1
         /\ UNCHANGED <<external, reader, promised, described>>
<1>1. /\ ~ Idle(c) /\ job[c].done = "header" /\ RowgroupsLeft(c)
      /\ i \in DOMAIN conn[c].td.spelling
      /\ disk' = Appended(job[c].file, RowgroupCell(conn[c].table[i], conn[c].td.spelling[i]))
      /\ conn' = [conn EXCEPT ![c].td = OffsetNoted(conn[c].td, i, job[c].cur_rowgroup_offset)]
      /\ job' = [job EXCEPT ![c] = ToFls(job[c].file, "header", i, OffsetAfter(c))]
      /\ UNCHANGED <<external, reader, promised, described>>
  BY DEF AppendRowgroup
<1>2. /\ job[c].file \in Files /\ job[c].rowgroup_idx \in Nat
      /\ job[c].cur_rowgroup_offset \in Nat \ {0}
      /\ conn \in [Conns -> Connection] /\ job \in [Conns -> Job \cup {None}]
      /\ conn[c].table \in Seq(Rowgroups) /\ Len(conn[c].table) \in Nat
      /\ conn[c].td \in TableDescriptor
      /\ DOMAIN conn[c].td.offset = DOMAIN conn[c].td.spelling
  BY <1>1, JobFacts
<1>3. i \in Nat /\ i \in DOMAIN conn[c].table
  BY <1>1, <1>2 DEF RowgroupsLeft
<1>4. conn[c].table[i] \in Rowgroups
  BY <1>2, <1>3
<1>5. conn[c].td.spelling[i] \in Spelling
  BY <1>1, <1>2 DEF TableDescriptor
<1>6. RowgroupCell(conn[c].table[i], conn[c].td.spelling[i]) \in Cell
  BY <1>4, <1>5, CellType
<1>7. PICK td : td = OffsetNoted(conn[c].td, i, job[c].cur_rowgroup_offset)
  OBVIOUS
<1>8. i \in DOMAIN conn[c].td.offset /\ job[c].cur_rowgroup_offset \in Nat
  BY <1>1, <1>2
<1>9. /\ td \in TableDescriptor /\ td.spelling = conn[c].td.spelling
      /\ DOMAIN td.offset = DOMAIN conn[c].td.offset
      /\ td.offset[i] = job[c].cur_rowgroup_offset
      /\ \A k \in DOMAIN conn[c].td.offset \ {i} : td.offset[k] = conn[c].td.offset[k]
  BY <1>2, <1>7, <1>8, OffsetSet
<1>10. conn' = [conn EXCEPT ![c].td = td]
  BY <1>1, <1>7
<1>11. /\ conn' \in [Conns -> Connection]
       /\ conn'[c].table = conn[c].table /\ conn'[c].prepared = conn[c].prepared /\ conn'[c].td = td
       /\ conn'[c].inline_footer = conn[c].inline_footer
       /\ \A d \in Conns \ {c} : conn'[d] = conn[d]
  BY <1>2, <1>9, <1>10, DescriptorSet
<1>12. OffsetAfter(c) \in Nat \ {0} /\ OffsetAfter(c) = job[c].cur_rowgroup_offset + 1
  BY <1>2 DEF OffsetAfter
<1>13. /\ job' \in [Conns -> Job \cup {None}] /\ job'[c] \in Job
       /\ job'[c].file = job[c].file /\ job'[c].done = "header" /\ job'[c].rowgroup_idx = i
       /\ job'[c].cur_rowgroup_offset = OffsetAfter(c)
       /\ \A d \in Conns \ {c} : job'[d] = job[d]
  BY <1>1, <1>2, <1>3, <1>12, ToFlsType
<1> QED BY <1>1, <1>3, <1>6, <1>9, <1>11, <1>12, <1>13

\* The descriptor is written, into the file or next to it.
LEMMA DescriptorFacts ==
  ASSUME TypeInv, NEW c \in Conns, WriteDescriptor(c)
  PROVE  /\ ~ Idle(c) /\ job[c].done = "header"
         /\ job[c].rowgroup_idx = Len(conn[c].table)
         /\ conn' \in [Conns -> Connection] /\ \A d \in Conns \ {c} : conn'[d] = conn[d]
         /\ conn'[c].table = conn[c].table /\ conn'[c].prepared = conn[c].prepared
         /\ conn'[c].inline_footer = conn[c].inline_footer
         /\ conn'[c].td \in TableDescriptor
         /\ conn'[c].td.spelling = conn[c].td.spelling
         /\ conn'[c].td.offset = conn[c].td.offset
         /\ conn'[c].td.binary_size = job[c].cur_rowgroup_offset
         /\ DescriptorCell(conn'[c].td) \in Cell
         /\ conn[c].inline_footer =>
              AppendCell(job[c].file, DescriptorCell(conn'[c].td))
         /\ ~ conn[c].inline_footer => ReplaceExternal(job[c].file, conn'[c].td)
         /\ job' \in [Conns -> Job \cup {None}] /\ \A d \in Conns \ {c} : job'[d] = job[d]
         /\ job'[c] \in Job /\ job'[c].file = job[c].file /\ job'[c].done = "descriptor"
         /\ job'[c].rowgroup_idx = job[c].rowgroup_idx
         /\ job'[c].cur_rowgroup_offset = job[c].cur_rowgroup_offset
         /\ UNCHANGED <<reader, promised>>
<1>1. PICK td : td = [conn[c].td EXCEPT !.binary_size = BinarySize(c)]
  OBVIOUS
<1>2. /\ ~ Idle(c) /\ job[c].done = "header" /\ ~ RowgroupsLeft(c)
      /\ conn' = [conn EXCEPT ![c].td = td]
      /\ job' = [job EXCEPT ![c].done = "descriptor"]
      /\ conn[c].inline_footer =>
           AppendCell(job[c].file, DescriptorCell(td))
      /\ ~ conn[c].inline_footer => ReplaceExternal(job[c].file, td)
      /\ UNCHANGED <<reader, promised>>
  BY <1>1 DEF WriteDescriptor
<1>3. /\ job[c] \in Job /\ job[c].rowgroup_idx \in Nat
      /\ job[c].cur_rowgroup_offset \in Nat \ {0}
      /\ conn \in [Conns -> Connection] /\ job \in [Conns -> Job \cup {None}]
      /\ Len(conn[c].table) \in Nat /\ job[c].rowgroup_idx <= Len(conn[c].table)
      /\ conn[c].td \in TableDescriptor
  BY <1>2, JobFacts
<1>4. job[c].rowgroup_idx = Len(conn[c].table)
  BY <1>2, <1>3 DEF RowgroupsLeft
<1>5. /\ td \in TableDescriptor /\ td.spelling = conn[c].td.spelling
      /\ td.offset = conn[c].td.offset /\ td.binary_size = job[c].cur_rowgroup_offset
  BY <1>1, <1>3, BinarySizeSet DEF BinarySize
<1>6. /\ conn' \in [Conns -> Connection]
      /\ conn'[c].table = conn[c].table /\ conn'[c].prepared = conn[c].prepared /\ conn'[c].td = td
      /\ conn'[c].inline_footer = conn[c].inline_footer
      /\ \A d \in Conns \ {c} : conn'[d] = conn[d]
  BY <1>2, <1>3, <1>5, DescriptorSet
<1>7. /\ job' \in [Conns -> Job \cup {None}] /\ job'[c] \in Job
      /\ job'[c].file = job[c].file /\ job'[c].done = "descriptor"
      /\ job'[c].rowgroup_idx = job[c].rowgroup_idx
      /\ job'[c].cur_rowgroup_offset = job[c].cur_rowgroup_offset
      /\ \A d \in Conns \ {c} : job'[d] = job[d]
  BY <1>2, <1>3, DoneType
<1>8. DescriptorCell(td) \in Cell
  BY <1>5, CellType
<1> QED BY <1>2, <1>4, <1>5, <1>6, <1>7, <1>8

\* The footer is appended, and to_fls returns.
LEMMA FooterFacts ==
  ASSUME TypeInv, NEW c \in Conns, WriteFooter(c)
  PROVE  /\ ~ Idle(c) /\ job[c].done = "descriptor"
         /\ FileFooter(conn[c].td.binary_size) \in Cell
         /\ disk' = Appended(job[c].file, FileFooter(conn[c].td.binary_size))
         /\ job' \in [Conns -> Job \cup {None}] /\ \A d \in Conns \ {c} : job'[d] = job[d]
         /\ job'[c] = None
         /\ UNCHANGED <<conn, external, reader, promised, described>>
<1>1. /\ ~ Idle(c) /\ job[c].done = "descriptor"
      /\ disk' = Appended(job[c].file, FileFooter(conn[c].td.binary_size))
      /\ job' = [job EXCEPT ![c] = None]
      /\ UNCHANGED <<conn, external, reader, promised, described>>
  BY DEF WriteFooter
<1>2. job \in [Conns -> Job \cup {None}] /\ conn[c].td \in TableDescriptor
  BY <1>1, JobFacts
<1>3. conn[c].td.binary_size \in Nat
  BY <1>2 DEF TableDescriptor
<1> QED BY <1>1, <1>2, <1>3, CellType

\* to_fls stops, with or without a part of its next write, and is forgotten.
LEMMA StopFacts ==
  ASSUME TypeInv, NEW c \in Conns, Throw(c) \/ Crash(c)
  PROVE  /\ \/ UNCHANGED <<disk, external, described>>
            \/ ~ Idle(c) /\ ReplaceExternal(job[c].file, Junk)
            \/ ~ Idle(c) /\ AppendCell(job[c].file, Torn)
         /\ job' \in [Conns -> Job \cup {None}] /\ \A d \in Conns \ {c} : job'[d] = job[d]
         /\ job'[c] = None
         /\ conn' \in [Conns -> Connection] /\ \A d \in Conns \ {c} : conn'[d] = conn[d]
         /\ conn'[c] = conn[c] \/ conn'[c] = NewConnection
         /\ UNCHANGED <<reader, promised>>
<1>1. conn \in [Conns -> Connection] /\ job \in [Conns -> Job \cup {None}]
  BY DEF TypeInv, TypeOK
<1>2. NewConnection \in Connection
  BY DEF NewConnection, Connection
<1>3. conn' = conn \/ conn' = [conn EXCEPT ![c] = NewConnection]
  BY DEF Throw, Crash
<1>4. job' = [job EXCEPT ![c] = None] /\ UNCHANGED <<reader, promised>>
  BY DEF Throw, Crash
<1>5. UNCHANGED <<disk, external, described>> \/ (~ Idle(c) /\ TearWrite(c))
  BY DEF Throw, Crash
<1>6. ~ Idle(c) /\ TearWrite(c) =>
        ReplaceExternal(job[c].file, Junk) \/ AppendCell(job[c].file, Torn)
  BY DEF TearWrite
<1>7. conn' \in [Conns -> Connection] /\ (\A d \in Conns \ {c} : conn'[d] = conn[d])
      /\ (conn'[c] = conn[c] \/ conn'[c] = NewConnection)
  BY <1>1, <1>2, <1>3
<1> QED BY <1>1, <1>4, <1>5, <1>6, <1>7

-----------------------------------------------------------------------------
(* Every step keeps the types *)

\* A step of one to_fls that keeps its own connection whole.
LEMMA WriteType ==
  ASSUME TypeInv, NEW c \in Conns,
         conn' \in [Conns -> Connection], \A d \in Conns \ {c} : conn'[d] = conn[d],
         job' \in [Conns -> Job \cup {None}], \A d \in Conns \ {c} : job'[d] = job[d],
         conn'[c].td # None => DOMAIN conn'[c].td.offset = DOMAIN conn'[c].td.spelling,
         job'[c] # None =>
           /\ conn'[c].table # None /\ conn'[c].prepared /\ conn'[c].td # None
           /\ job'[c].rowgroup_idx \in 0 .. Len(conn'[c].table),
         disk' \in [Files -> Seq(Cell) \cup {None}],
         \A f \in Files : disk[f] # None => disk'[f] # None,
         external' \in [Dirs -> TableDescriptor \cup {None, Junk}],
         described' \in [Dirs -> Files \cup {None}],
         promised' \in [Files -> Tables \cup {None}], UNCHANGED reader
  PROVE  TypeInv'
<1>1. \A d \in Conns : job'[d] # None =>
        /\ conn'[d].table # None /\ conn'[d].prepared /\ conn'[d].td # None
        /\ job'[d].rowgroup_idx \in 0 .. Len(conn'[d].table)
  BY DEF TypeInv, TypeOK
<1>2. \A d \in Conns : conn'[d].td # None =>
        DOMAIN conn'[d].td.offset = DOMAIN conn'[d].td.spelling
  BY DEF TypeInv
<1>3. reader' # None => disk'[reader'.file] # None
  BY DEF TypeInv, TypeOK, Reader
<1> QED BY <1>1, <1>2, <1>3 DEF TypeInv, TypeOK

\* No write takes a file away.
LEMMA AppendedKeeps ==
  ASSUME TypeInv, NEW f \in Files, NEW cell \in Cell, disk' = Appended(f, cell)
  PROVE  /\ disk' \in [Files -> Seq(Cell) \cup {None}]
         /\ \A g \in Files : disk[g] # None => disk'[g] # None
<1>1. disk \in [Files -> Seq(Cell) \cup {None}]
  BY DEF TypeInv, TypeOK
<1>2. /\ disk' \in [Files -> Seq(Cell) \cup {None}] /\ disk'[f] \in Seq(Cell)
      /\ \A g \in Files \ {f} : disk'[g] = disk[g]
  BY <1>1, AppendedFacts
<1> QED BY <1>2, AbsentAssumption

\* A table_descriptor.fbb is replaced, and nothing else.
LEMMA Replaced ==
  ASSUME TypeInv, NEW f \in Files, NEW x, ReplaceExternal(f, x)
  PROVE  /\ UNCHANGED disk
         /\ external'[DirOf[f]] = x /\ described'[DirOf[f]] = f
         /\ \A d \in Dirs \ {DirOf[f]} : external'[d] = external[d] /\ described'[d] = described[d]
         /\ described' \in [Dirs -> Files \cup {None}]
         /\ x \in TableDescriptor \cup {Junk} =>
              external' \in [Dirs -> TableDescriptor \cup {None, Junk}]
<1>1. /\ external \in [Dirs -> TableDescriptor \cup {None, Junk}] /\ DirOf[f] \in Dirs
      /\ described \in [Dirs -> Files \cup {None}]
  BY DirOfAssumption DEF TypeInv, TypeOK
<1>2. /\ external' = [external EXCEPT ![DirOf[f]] = x]
      /\ described' = [described EXCEPT ![DirOf[f]] = f] /\ UNCHANGED disk
  BY DEF ReplaceExternal
<1> QED BY <1>1, <1>2

\* The steps of to_fls keep the types.
LEMMA ToFlsKeepsType ==
  ASSUME TypeInv, NEW c \in Conns,
         \/ \E f \in Files : StartToFls(c, f)
         \/ WriteHeader(c) \/ AppendRowgroup(c) \/ WriteDescriptor(c) \/ WriteFooter(c)
         \/ Throw(c) \/ Crash(c)
  PROVE  TypeInv'
<1>1. /\ disk \in [Files -> Seq(Cell) \cup {None}] /\ conn \in [Conns -> Connection]
      /\ external \in [Dirs -> TableDescriptor \cup {None, Junk}]
      /\ described \in [Dirs -> Files \cup {None}]
      /\ promised \in [Files -> Tables \cup {None}]
      /\ conn[c].td # None => DOMAIN conn[c].td.offset = DOMAIN conn[c].td.spelling
      /\ \A d \in Conns \ {c} : conn[d] = conn[d]
  BY DEF TypeInv, TypeOK
<1>2. ASSUME NEW f \in Files, StartToFls(c, f) PROVE TypeInv'
  <2>1. job'[c].rowgroup_idx = 0
    <3>1. job'[c] = ToFls(f, "nothing", 0, 1)
      BY <1>2, StartFacts
    <3> QED BY <3>1 DEF ToFls
  <2>2. conn'[c].table \in Seq(Rowgroups) /\ Len(conn'[c].table) \in Nat
    BY <1>2, StartFacts, TablesAssumption
  <2>3. conn'[c].table # None /\ conn'[c].td # None
    BY <1>2, StartFacts, NoneAssumption
  <2>4. job'[c].rowgroup_idx \in 0 .. Len(conn'[c].table)
    BY <2>1, <2>2
  <2> QED BY <1>1, <1>2, <2>3, <2>4, StartFacts, WriteType
<1>3. ASSUME WriteHeader(c) PROVE TypeInv'
  <2>1. ~ Idle(c)
    BY <1>3, HeaderFacts
  <2>2. disk' \in [Files -> Seq(Cell) \cup {None}] /\ \A g \in Files : disk[g] # None => disk'[g] # None
    BY <1>3, <2>1, HeaderFacts, JobFacts, AppendedKeeps
  <2>3. /\ conn[c].table # None /\ conn[c].prepared /\ conn[c].td # None
        /\ job'[c].rowgroup_idx \in 0 .. Len(conn[c].table)
    BY <1>3, <2>1, HeaderFacts DEF TypeInv, TypeOK, Idle
  <2> QED BY <1>1, <1>3, <2>2, <2>3, HeaderFacts, WriteType
<1>4. ASSUME AppendRowgroup(c) PROVE TypeInv'
  <2>1. PICK i : i = job[c].rowgroup_idx + 1
    OBVIOUS
  <2>2. ~ Idle(c)
    BY <1>4, <2>1, RowgroupFacts
  <2>3. disk' \in [Files -> Seq(Cell) \cup {None}] /\ \A g \in Files : disk[g] # None => disk'[g] # None
    BY <1>4, <2>1, <2>2, RowgroupFacts, JobFacts, AppendedKeeps
  <2>4. /\ conn'[c].table = conn[c].table /\ conn'[c].prepared = conn[c].prepared
        /\ conn'[c].td \in TableDescriptor
        /\ DOMAIN conn'[c].td.offset = DOMAIN conn'[c].td.spelling
        /\ job'[c].rowgroup_idx = i /\ i \in DOMAIN conn[c].table
        /\ conn' \in [Conns -> Connection] /\ \A d \in Conns \ {c} : conn'[d] = conn[d]
        /\ job' \in [Conns -> Job \cup {None}] /\ \A d \in Conns \ {c} : job'[d] = job[d]
        /\ UNCHANGED <<external, reader, promised, described>>
    BY <1>1, <1>4, <2>1, <2>2, RowgroupFacts, JobFacts
  <2>5. i \in 0 .. Len(conn[c].table) /\ conn[c].table # None /\ conn[c].prepared
    BY <2>2, <2>4, JobFacts, NoneAssumption
  <2>6. conn'[c].td # None
    BY <2>4, NoneAssumption
  <2> QED BY <1>1, <2>3, <2>4, <2>5, <2>6, WriteType
<1>5. ASSUME WriteDescriptor(c) PROVE TypeInv'
  <2>1. /\ ~ Idle(c) /\ conn'[c].td \in TableDescriptor /\ DescriptorCell(conn'[c].td) \in Cell
        /\ conn[c].inline_footer => AppendCell(job[c].file, DescriptorCell(conn'[c].td))
        /\ ~ conn[c].inline_footer => ReplaceExternal(job[c].file, conn'[c].td)
    BY <1>5, DescriptorFacts
  <2>2. /\ disk' \in [Files -> Seq(Cell) \cup {None}] /\ \A g \in Files : disk[g] # None => disk'[g] # None
        /\ external' \in [Dirs -> TableDescriptor \cup {None, Junk}]
        /\ described' \in [Dirs -> Files \cup {None}]
    <3>1. CASE conn[c].inline_footer
      <4>1. disk' = Appended(job[c].file, DescriptorCell(conn'[c].td)) /\ UNCHANGED <<external, described>>
        BY <2>1, <3>1 DEF AppendCell
      <4> QED BY <1>1, <2>1, <4>1, JobFacts, AppendedKeeps
    <3>2. CASE ~ conn[c].inline_footer
      <4>1. PICK td \in TableDescriptor : td = conn'[c].td
        BY <2>1
      <4>2. ReplaceExternal(job[c].file, td)
        BY <2>1, <3>2, <4>1
      <4> QED BY <1>1, <2>1, <4>2, JobFacts, Replaced
    <3> QED BY <3>1, <3>2
  <2>3. /\ conn'[c].table = conn[c].table /\ conn'[c].prepared = conn[c].prepared
        /\ DOMAIN conn'[c].td.offset = DOMAIN conn'[c].td.spelling
        /\ job'[c].rowgroup_idx = job[c].rowgroup_idx
        /\ conn' \in [Conns -> Connection] /\ \A d \in Conns \ {c} : conn'[d] = conn[d]
        /\ job' \in [Conns -> Job \cup {None}] /\ \A d \in Conns \ {c} : job'[d] = job[d]
        /\ UNCHANGED <<reader, promised>>
    BY <1>5, <2>1, DescriptorFacts, JobFacts
  <2>4. job[c].rowgroup_idx \in 0 .. Len(conn[c].table) /\ conn[c].table # None /\ conn[c].prepared
    BY <2>1, JobFacts, NoneAssumption
  <2>5. conn'[c].td # None
    BY <2>1, NoneAssumption
  <2> QED BY <1>1, <2>2, <2>3, <2>4, <2>5, WriteType
<1>6. ASSUME WriteFooter(c) PROVE TypeInv'
  <2>1. disk' \in [Files -> Seq(Cell) \cup {None}] /\ \A g \in Files : disk[g] # None => disk'[g] # None
    BY <1>6, FooterFacts, JobFacts, AppendedKeeps
  <2> QED BY <1>1, <1>6, <2>1, FooterFacts, WriteType
<1>7. ASSUME Throw(c) \/ Crash(c) PROVE TypeInv'
  <2>1. /\ disk' \in [Files -> Seq(Cell) \cup {None}] /\ \A g \in Files : disk[g] # None => disk'[g] # None
        /\ external' \in [Dirs -> TableDescriptor \cup {None, Junk}]
        /\ described' \in [Dirs -> Files \cup {None}]
    <3>1. CASE UNCHANGED <<disk, external, described>>
      BY <1>1, <3>1
    <3>2. CASE ~ Idle(c) /\ ReplaceExternal(job[c].file, Junk)
      BY <1>1, <3>2, JobFacts, Replaced
    <3>3. CASE ~ Idle(c) /\ AppendCell(job[c].file, Torn)
      <4>1. disk' = Appended(job[c].file, Torn) /\ UNCHANGED <<external, described>>
        BY <3>3 DEF AppendCell
      <4> QED BY <1>1, <3>3, <4>1, JobFacts, CellType, AppendedKeeps
    <3> QED BY <1>7, <3>1, <3>2, <3>3, StopFacts
  <2>2. NewConnection.td = None
    BY DEF NewConnection
  <2>3. conn'[c].td # None => DOMAIN conn'[c].td.offset = DOMAIN conn'[c].td.spelling
    BY <1>1, <1>7, <2>2, StopFacts
  <2> QED BY <1>1, <1>7, <2>1, <2>3, StopFacts, WriteType
<1> QED BY <1>2, <1>3, <1>4, <1>5, <1>6, <1>7

\* A reader opens.
LEMMA ReadFlsFacts ==
  ASSUME TypeInv, NEW f \in Files, ReadFls(f)
  PROVE  /\ reader = None /\ Verified(f) /\ disk[f] \in Seq(Cell)
         /\ DescriptorOf(f) \in TableDescriptor
         /\ reader' \in Reader /\ reader'.file = f /\ reader'.td = DescriptorOf(f)
         /\ reader'.table = <<>> /\ (reader'.own <=> OwnDescriptor(f))
         /\ UNCHANGED <<conn, job, disk, external, promised, described>>
<1>0. PICK own \in BOOLEAN : own = OwnDescriptor(f)
  BY DEF OwnDescriptor
<1>1. PICK td : td = DescriptorOf(f)
  OBVIOUS
<1>2. /\ reader = None /\ Verified(f) /\ td \notin {Junk, None}
      /\ reader' = [file |-> f, td |-> td, table |-> <<>>, own |-> own]
      /\ UNCHANGED <<conn, job, disk, external, promised, described>>
  BY <1>0, <1>1 DEF ReadFls
<1>3. disk[f] \in Seq(Cell)
  BY <1>2 DEF TypeInv, TypeOK, Verified
<1>4. td \in TableDescriptor
  BY <1>1, <1>2, <1>3, DescriptorType DEF TypeInv, TypeOK
<1>5. <<>> \in Seq(Rowgroups \cup {Junk})
  OBVIOUS
<1>6. reader' \in Reader
  BY <1>2, <1>4, <1>5 DEF Reader
<1> QED BY <1>0, <1>1, <1>2, <1>3, <1>4, <1>6

\* A reader takes one rowgroup.
LEMMA MaterializeFacts ==
  ASSUME TypeInv, MaterializeRowgroup, NEW i, i = Len(reader.table) + 1
  PROVE  /\ reader \in Reader /\ i \in DOMAIN reader.td.offset
         /\ ReadRowgroup(reader.file, reader.td, i) \in Rowgroups \cup {Junk}
         /\ reader' \in Reader /\ reader'.file = reader.file /\ reader'.td = reader.td
         /\ reader'.own = reader.own
         /\ reader'.table = Append(reader.table, ReadRowgroup(reader.file, reader.td, i))
         /\ UNCHANGED <<conn, job, disk, external, promised, described>>
<1>1. PICK r : r = ReadRowgroup(reader.file, reader.td, i)
  OBVIOUS
<1>2. /\ reader # None /\ RowgroupsToRead
      /\ reader' = [reader EXCEPT !.table = Append(@, r)]
      /\ UNCHANGED <<conn, job, disk, external, promised, described>>
  BY <1>1 DEF MaterializeRowgroup, DescriptorKept
<1>3. reader \in Reader /\ disk[reader.file] # None
  BY <1>2 DEF TypeInv, TypeOK
<1>4. /\ reader.file \in Files /\ reader.td \in TableDescriptor
      /\ reader.table \in Seq(Rowgroups \cup {Junk})
  BY <1>3 DEF Reader
<1>5. disk[reader.file] \in Seq(Cell)
  BY <1>3, <1>4 DEF TypeInv, TypeOK
<1>6. i \in Nat
  BY <1>4
<1>7. reader.td.offset \in Seq(Nat)
  BY <1>4 DEF TableDescriptor
<1>8. i \in DOMAIN reader.td.offset
  BY <1>2, <1>4, <1>6, <1>7 DEF RowgroupsToRead
<1>9. r \in Rowgroups \cup {Junk}
  BY <1>1, <1>4, <1>5, <1>6, ReadRowgroupType
<1>10. PICK grown : grown = Append(reader.table, r)
  OBVIOUS
<1>11. grown \in Seq(Rowgroups \cup {Junk})
  BY <1>4, <1>9, <1>10
<1>12. reader' \in Reader /\ reader'.file = reader.file /\ reader'.td = reader.td
       /\ reader'.own = reader.own /\ reader'.table = grown
  BY <1>2, <1>3, <1>10, <1>11 DEF Reader
<1> QED BY <1>1, <1>2, <1>3, <1>8, <1>9, <1>10, <1>12

\* Readers and whoever removes files keep the types.
LEMMA OthersKeepType ==
  ASSUME TypeInv,
         \/ \E f \in Files : ReadFls(f) \/ RemoveFile(f)
         \/ MaterializeRowgroup \/ CloseReader
  PROVE  TypeInv'
<1>1. ASSUME NEW f \in Files, ReadFls(f) PROVE TypeInv'
  <2>1. reader' \in Reader /\ disk'[reader'.file] # None
    BY <1>1, ReadFlsFacts, AbsentAssumption
  <2> QED BY <1>1, <2>1, ReadFlsFacts DEF TypeInv, TypeOK, Idle
<1>2. ASSUME NEW f \in Files, RemoveFile(f) PROVE TypeInv'
  <2>1. reader' # None => reader' = reader /\ reader.file \in Files \ {f}
    BY <1>2 DEF RemoveFile, TypeInv, TypeOK, Reader
  <2>2. disk'[f] = None /\ \A g \in Files \ {f} : disk'[g] = disk[g]
    BY <1>2 DEF RemoveFile, TypeInv, TypeOK
  <2>3. (reader' # None => disk'[reader'.file] # None) /\ reader' \in Reader \cup {None}
    BY <2>1, <2>2 DEF TypeInv, TypeOK
  <2> QED BY <1>2, <2>3 DEF RemoveFile, TypeInv, TypeOK
<1>3. ASSUME MaterializeRowgroup PROVE TypeInv'
  <2>1. reader \in Reader /\ reader' \in Reader /\ reader'.file = reader.file
        /\ UNCHANGED <<conn, job, disk, external, promised, described>>
    BY <1>3, MaterializeFacts
  <2>2. reader # None
    BY <1>3 DEF MaterializeRowgroup
  <2> QED BY <2>1, <2>2 DEF TypeInv, TypeOK
<1>4. ASSUME CloseReader PROVE TypeInv'
  BY <1>4 DEF CloseReader, TypeInv, TypeOK
<1> QED BY <1>1, <1>2, <1>3, <1>4

\* The types hold at the start.
LEMMA InitTypeInv == Init => TypeInv
<1> SUFFICES ASSUME Init PROVE TypeInv
  OBVIOUS
<1>1. NewConnection \in Connection /\ NewConnection.td = None
  BY DEF NewConnection, Connection
<1> QED BY <1>1 DEF Init, TypeInv, TypeOK

\* Every step keeps the types.
LEMMA NextTypeInv == TypeInv /\ [Next]_vars => TypeInv'
<1> SUFFICES ASSUME TypeInv, [Next]_vars PROVE TypeInv'
  OBVIOUS
<1>1. CASE UNCHANGED vars
  BY <1>1 DEF vars, TypeInv, TypeOK
<1>2. CASE Next
  BY <1>2, CallsType, ToFlsKeepsType, OthersKeepType DEF Next
<1> QED BY <1>1, <1>2

\* Every variable keeps its type, and a connection in to_fls has all it needs,
\* for any number of connections, paths, tables and rowgroups.
THEOREM TypeCorrect == Spec => []TypeOK
<1>1. TypeInv => TypeOK
  BY DEF TypeInv
<1> QED BY <1>1, InitTypeInv, NextTypeInv, PTL DEF Spec

-----------------------------------------------------------------------------
(* The condition *)

\* Clients call nothing but what the clients in the repository call.
RepositoryCalls == Calls = {}

-----------------------------------------------------------------------------
(* The inductive invariant *)

\* A descriptor was spelled for a table, and the table was prepared.
Fits(td, t) ==
  /\ DOMAIN td.spelling = DOMAIN t
  /\ \A k \in DOMAIN t : td.spelling[k] = [of |-> t[k], prepared |-> TRUE]

\* A connection that has a descriptor has the table it was spelled for.
ConnectionInv(c) ==
  conn[c].td # None =>
    conn[c].table # None /\ conn[c].prepared /\ Fits(conn[c].td, conn[c].table)

\* The first i rowgroups of a table stand in a file where the descriptor says.
Stands(cells, t, td, i) ==
  \A k \in 1 .. i : td.offset[k] = k /\ cells[k + 1] = RowgroupCell(t[k], td.spelling[k])

\* Nothing is written yet.
AtStart(j, cells) ==
  j.done = "nothing" /\ j.rowgroup_idx = 0 /\ j.cur_rowgroup_offset = 1 /\ cells = None

\* The header and some rowgroups are written.
InBody(j, cn, cells) ==
  /\ j.done = "header" /\ j.cur_rowgroup_offset = j.rowgroup_idx + 1
  /\ cells # None /\ Len(cells) = j.rowgroup_idx + 1 /\ cells[1] = FileHeader(cn.inline_footer)
  /\ Stands(cells, cn.table, cn.td, j.rowgroup_idx)

\* All is written but the footer.
AtEnd(j, cn, cells) ==
  /\ j.done = "descriptor" /\ j.rowgroup_idx = Len(cn.table)
  /\ cn.td.binary_size = Len(cn.table) + 1
  /\ cells # None /\ cells[1] = FileHeader(cn.inline_footer)
  /\ Stands(cells, cn.table, cn.td, Len(cn.table))
  /\ cn.inline_footer => /\ Len(cells) = Len(cn.table) + 2
                         /\ cells[Len(cn.table) + 2] = DescriptorCell(cn.td)
  /\ ~ cn.inline_footer => Len(cells) = Len(cn.table) + 1

\* How far a to_fls has come with its file.
Progress(j, cn, cells) ==
  AtStart(j, cells) \/ InBody(j, cn, cells) \/ AtEnd(j, cn, cells)

\* An external descriptor that is written stands next to the file, until another
\* to_fls replaces it.
DescribedBy(c, f) ==
  job[c].done = "descriptor" /\ ~ conn[c].inline_footer /\ described[DirOf[f]] = f =>
    external[DirOf[f]] = conn[c].td

JobInv(c) ==
  ~ Idle(c) =>
    /\ promised[job[c].file] = conn[c].table
    /\ Progress(job[c], conn[c], disk[job[c].file])
    /\ DescribedBy(c, job[c].file)

\* No two connections write one file.
OneWriter ==
  \A c, d \in Conns : ~ Idle(c) /\ ~ Idle(d) /\ job[c].file = job[d].file => c = d

\* A file that verifies, with its own descriptor, was promised a table, and reads
\* back as it.
Complete(f) ==
  Verified(f) /\ OwnDescriptor(f) => promised[f] \in Tables /\ ReadBack(f) = promised[f]

\* A reader with the descriptor of its file finds each rowgroup of the table, and
\* has read a part of them.
ReaderInv ==
  reader # None /\ reader.own =>
    /\ Verified(reader.file) /\ promised[reader.file] \in Tables
    /\ DOMAIN reader.td.offset = DOMAIN promised[reader.file]
    /\ \A k \in DOMAIN promised[reader.file] :
         ReadRowgroup(reader.file, reader.td, k) = promised[reader.file][k]
    /\ Len(reader.table) <= Len(promised[reader.file])
    /\ \A k \in 1 .. Len(reader.table) : reader.table[k] = promised[reader.file][k]

IInv ==
  /\ TypeInv
  /\ \A c \in Conns : ConnectionInv(c) /\ JobInv(c)
  /\ OneWriter
  /\ \A f \in Files : Complete(f)
  /\ ReaderInv

-----------------------------------------------------------------------------
(* Files that are being written, and files that are not *)

\* The last cell of a file.
LEMMA LastCell ==
  ASSUME NEW cells \in Seq(Cell), Len(cells) > 0
  PROVE  At(cells, Len(cells) - 1) = cells[Len(cells)]
<1>1. Len(cells) - 1 + 1 \in DOMAIN cells /\ Len(cells) - 1 + 1 = Len(cells)
  OBVIOUS
<1> QED BY <1>1 DEF At

\* The last of the rowgroups that stand in a file.
LEMMA LastStands ==
  ASSUME NEW cells, NEW t, NEW td, NEW i \in Nat, i > 0, Stands(cells, t, td, i)
  PROVE  cells[i + 1].kind = "rowgroup"
<1>1. i \in 1 .. i
  OBVIOUS
<1>2. cells[i + 1] = RowgroupCell(t[i], td.spelling[i])
  BY <1>1 DEF Stands
<1> QED BY <1>2 DEF RowgroupCell

\* Before the footer is written, a file ends in something else.
LEMMA UnfinishedCells ==
  ASSUME NEW cells \in Seq(Cell), NEW j \in Job, NEW cn, Len(cn.table) \in Nat,
         cells # None, Progress(j, cn, cells)
  PROVE  At(cells, Len(cells) - 1).kind # "footer"
<1>1. j.rowgroup_idx \in Nat
  BY DEF Job
<1>2. CASE InBody(j, cn, cells)
  <2>1. CASE j.rowgroup_idx = 0
    <3>1. Len(cells) = 1 /\ cells[1].kind = "header"
      BY <1>2, <2>1 DEF InBody, FileHeader
    <3>2. At(cells, Len(cells) - 1) = cells[Len(cells)]
      <4>1. Len(cells) > 0
        BY <3>1
      <4> QED BY <4>1, LastCell
    <3>3. At(cells, Len(cells) - 1).kind = "header"
      BY <3>1, <3>2
    <3> QED BY <3>3
  <2>2. CASE j.rowgroup_idx > 0
    <3>1. cells[j.rowgroup_idx + 1].kind = "rowgroup"
      BY <1>1, <1>2, <2>2, LastStands DEF InBody
    <3>2. Len(cells) = j.rowgroup_idx + 1
      BY <1>2 DEF InBody
    <3> QED BY <1>1, <2>2, <3>1, <3>2, LastCell
  <2> QED BY <1>1, <2>1, <2>2
<1>3. CASE AtEnd(j, cn, cells)
  <2>1. CASE cn.inline_footer
    BY <1>3, <2>1, LastCell DEF AtEnd, DescriptorCell
  <2>2. CASE ~ cn.inline_footer /\ Len(cn.table) = 0
    <3>1. Len(cells) = 1 /\ cells[1].kind = "header"
      BY <1>3, <2>2 DEF AtEnd, FileHeader
    <3>2. Len(cells) > 0
      BY <3>1
    <3>3. At(cells, Len(cells) - 1) = cells[Len(cells)]
      BY <3>2, LastCell
    <3>4. At(cells, Len(cells) - 1).kind = "header"
      BY <3>1, <3>3
    <3> QED BY <3>4
  <2>3. CASE ~ cn.inline_footer /\ Len(cn.table) > 0
    <3>1. cells[Len(cn.table) + 1].kind = "rowgroup"
      BY <1>3, <2>3, LastStands DEF AtEnd
    <3>2. Len(cells) = Len(cn.table) + 1
      BY <1>3, <2>3 DEF AtEnd
    <3> QED BY <2>3, <3>1, <3>2, LastCell
  <2> QED BY <2>1, <2>2, <2>3
<1> QED BY <1>2, <1>3 DEF Progress, AtStart

\* The file of a to_fls does not verify.
LEMMA WritingUnverified ==
  ASSUME TypeInv, NEW c \in Conns, ~ Idle(c), JobInv(c)
  PROVE  ~ Verified(job[c].file)
<1>1. /\ disk[job[c].file] \in Seq(Cell) \cup {None} /\ job[c] \in Job
      /\ Len(conn[c].table) \in Nat
  BY JobFacts
<1>2. Progress(job[c], conn[c], disk[job[c].file])
  BY DEF JobInv
<1> QED BY <1>1, <1>2, UnfinishedCells DEF Verified

\* A step leaves a file alone, and the descriptor next to it, if that was the
\* one of the file: it may replace a descriptor that was not.
LeftAlone(g) ==
  /\ disk'[g] = disk[g]
  /\ described'[DirOf[g]] = g =>
       described[DirOf[g]] = g /\ external'[DirOf[g]] = external[DirOf[g]]

\* What is read of a file is in the file and its descriptor.
LEMMA UntouchedFile ==
  ASSUME NEW f \in Files, LeftAlone(f)
  PROVE  /\ Verified(f)' <=> Verified(f)
         /\ OwnDescriptor(f)' => OwnDescriptor(f) /\ ReadBack(f)' = ReadBack(f)
         /\ \A td, k : ReadRowgroup(f, td, k)' = ReadRowgroup(f, td, k)
<1>1. Verified(f)' <=> Verified(f)
  BY DEF Verified, LeftAlone
<1>2. \A td, k : ReadRowgroup(f, td, k)' = ReadRowgroup(f, td, k)
  BY DEF ReadRowgroup, LeftAlone
<1>3. OwnDescriptor(f)' => OwnDescriptor(f) /\ DescriptorOf(f)' = DescriptorOf(f)
  BY DEF OwnDescriptor, DescriptorOf, LeftAlone
<1>4. DescriptorOf(f)' = DescriptorOf(f) => ReadBack(f)' = ReadBack(f)
  BY <1>2 DEF ReadBack
<1> QED BY <1>1, <1>2, <1>3, <1>4

\* A file that is left alone stays as complete as it was.
LEMMA CompleteStays ==
  ASSUME NEW f \in Files, LeftAlone(f), promised'[f] = promised[f], Complete(f)
  PROVE  Complete(f)'
BY UntouchedFile DEF Complete

\* An open reader is not disturbed while the cells of its file stay.
LEMMA ReaderStays ==
  ASSUME ReaderInv, UNCHANGED reader,
         reader # None /\ reader.own =>
           /\ disk'[reader.file] = disk[reader.file]
           /\ promised'[reader.file] = promised[reader.file]
  PROVE  ReaderInv'
<1> SUFFICES ASSUME reader # None, reader.own PROVE ReaderInv'
  BY DEF ReaderInv
<1>1. PICK f : f = reader.file
  OBVIOUS
<1>2. disk'[f] = disk[f] /\ promised'[f] = promised[f] /\ UNCHANGED reader
  BY <1>1
<1>3. Verified(f) => Verified(f)'
  BY <1>2 DEF Verified
<1>4. \A td, k : ReadRowgroup(f, td, k)' = ReadRowgroup(f, td, k)
  BY <1>2 DEF ReadRowgroup
<1>5. PICK td, t : td = reader.td /\ t = promised[f]
  OBVIOUS
<1>6. \A k \in DOMAIN t : ReadRowgroup(f, td, k) = t[k]
  BY <1>1, <1>5 DEF ReaderInv
<1>7. \A k \in DOMAIN t : ReadRowgroup(f, td, k)' = t[k]
  BY <1>4, <1>6
<1>8. reader'.file = f /\ reader'.td = td /\ promised'[f] = t
  BY <1>1, <1>2, <1>5
<1> QED BY <1>1, <1>2, <1>3, <1>5, <1>7, <1>8 DEF ReaderInv

-----------------------------------------------------------------------------
(* What a step leaves alone *)

\* A connection calls something and no file changes.
LEMMA CallKeeps ==
  ASSUME IInv, TypeInv', NEW c \in Conns, Idle(c), ConnectionInv(c)',
         \A d \in Conns \ {c} : conn'[d] = conn[d],
         UNCHANGED <<job, disk, external, reader, promised, described>>
  PROVE  IInv'
<1>1. \A d \in Conns : ConnectionInv(d)'
  BY DEF IInv, ConnectionInv
<1>2. \A d \in Conns : JobInv(d)'
  BY DEF IInv, JobInv, DescribedBy, Idle
<1>3. OneWriter'
  BY DEF IInv, OneWriter, Idle
<1>4. \A f \in Files : Complete(f)'
  BY CompleteStays DEF IInv, LeftAlone
<1>5. ReaderInv'
  BY ReaderStays DEF IInv
<1> QED BY <1>1, <1>2, <1>3, <1>4, <1>5 DEF IInv

\* A to_fls writes to a file of its own, and the others do not notice.
LEMMA WriteKeeps ==
  ASSUME IInv, TypeInv', NEW c \in Conns, NEW f \in Files,
         \A d \in Conns \ {c} : conn'[d] = conn[d] /\ job'[d] = job[d],
         \A d \in Conns \ {c} : ~ Idle(d) => job[d].file # f,
         \A g \in Files \ {f} : LeftAlone(g) /\ promised'[g] = promised[g],
         job'[c] # None => job'[c].file = f,
         ~ Verified(f), UNCHANGED reader,
         ConnectionInv(c)', JobInv(c)', Complete(f)'
  PROVE  IInv'
<1>1. \A d \in Conns : ConnectionInv(d)'
  BY DEF IInv, ConnectionInv
<1>2. \A d \in Conns \ {c} : ~ Idle(d) => job[d].file \in Files \ {f}
  BY JobFacts DEF IInv
<1>3. \A d \in Conns : JobInv(d)'
  <2> SUFFICES ASSUME NEW d \in Conns \ {c}, ~ Idle(d) PROVE JobInv(d)'
    BY DEF JobInv, Idle
  <2>1. PICK g \in Files \ {f} : g = job[d].file
    BY <1>2
  <2>2. JobInv(d) /\ LeftAlone(g) /\ promised'[g] = promised[g]
    BY <2>1 DEF IInv
  <2>3. conn'[d] = conn[d] /\ job'[d] = job[d]
    OBVIOUS
  <2>4. promised'[job'[d].file] = conn'[d].table /\ Progress(job'[d], conn'[d], disk'[job'[d].file])
    BY <2>1, <2>2, <2>3 DEF JobInv, LeftAlone
  <2>5. DescribedBy(d, job[d].file)'
    BY <2>1, <2>2, <2>3 DEF JobInv, DescribedBy, LeftAlone
  <2> QED BY <2>3, <2>4, <2>5 DEF JobInv
<1>4. OneWriter'
  BY DEF IInv, OneWriter, Idle
<1>5. \A g \in Files : Complete(g)'
  BY CompleteStays DEF IInv
<1>6. ReaderInv'
  <2>1. reader # None /\ reader.own => reader.file \in Files \ {f}
    BY DEF IInv, ReaderInv, TypeInv, TypeOK, Reader
  <2>2. reader # None /\ reader.own =>
          disk'[reader.file] = disk[reader.file] /\ promised'[reader.file] = promised[reader.file]
    BY <2>1 DEF LeftAlone
  <2> QED BY <2>2, ReaderStays DEF IInv
<1> QED BY <1>1, <1>3, <1>4, <1>5, <1>6 DEF IInv

-----------------------------------------------------------------------------
(* The calls on an idle connection *)

\* What spell makes of a prepared table fits it.
LEMMA SpelledFits == \A t \in Seq(Rowgroups) : Fits(Spelled(t, TRUE), t)
BY DEF Spelled, Fits

\* A table is loaded into a connection without a descriptor, and spelled when
\* it has been prepared.
LEMMA CallsKeepIInv ==
  ASSUME RepositoryCalls, IInv, TypeInv', NEW c \in Conns,
         (\E t \in Tables : Load(c, t)) \/ Reset(c) \/ InlineFooter(c) \/ Spell(c)
  PROVE  IInv'
<1>1. conn \in [Conns -> Connection] /\ ConnectionInv(c)
  BY DEF IInv, TypeInv, TypeOK
<1>2. ASSUME NEW t \in Tables, Load(c, t) PROVE IInv'
  <2>1. conn[c].td = None /\ Idle(c) /\ UNCHANGED <<job, disk, external, reader, promised, described>>
        /\ conn' = [conn EXCEPT ![c] = Holding(conn[c], t, FALSE, conn[c].td)]
    BY <1>2 DEF Load, RepositoryCalls
  <2>2. conn'[c].td = None /\ \A d \in Conns \ {c} : conn'[d] = conn[d]
    BY <1>1, <2>1 DEF Holding
  <2> QED BY <2>1, <2>2, CallKeeps DEF ConnectionInv
<1>3. ASSUME Reset(c) PROVE IInv'
  <2>1. Idle(c) /\ UNCHANGED <<job, disk, external, reader, promised, described>>
        /\ conn' = [conn EXCEPT ![c] = Holding(conn[c], None, FALSE, None)]
    BY <1>3 DEF Reset
  <2>2. conn'[c].td = None /\ \A d \in Conns \ {c} : conn'[d] = conn[d]
    BY <1>1, <2>1 DEF Holding
  <2> QED BY <2>1, <2>2, CallKeeps DEF ConnectionInv
<1>4. ASSUME InlineFooter(c) PROVE IInv'
  <2>1. Idle(c) /\ UNCHANGED <<job, disk, external, reader, promised, described>>
        /\ conn' = [conn EXCEPT ![c].inline_footer = TRUE]
    BY <1>4 DEF InlineFooter
  <2>2. /\ conn'[c].td = conn[c].td /\ conn'[c].table = conn[c].table
        /\ conn'[c].prepared = conn[c].prepared /\ \A d \in Conns \ {c} : conn'[d] = conn[d]
    BY <1>1, <2>1 DEF Connection
  <2> QED BY <1>1, <2>1, <2>2, CallKeeps DEF ConnectionInv
<1>5. ASSUME Spell(c) PROVE IInv'
  <2>1. PICK td : td = Spelled(conn[c].table, TRUE)
    OBVIOUS
  <2>2. conn[c].prepared \in BOOLEAN
    BY <1>1 DEF Connection
  <2>3. /\ Idle(c) /\ UNCHANGED <<job, disk, external, reader, promised, described>>
        /\ conn[c].table # None /\ conn[c].prepared
        /\ conn' = [conn EXCEPT ![c].td = Spelled(conn[c].table, conn[c].prepared)]
    BY <1>5 DEF Spell, RepositoryCalls
  <2>4. conn' = [conn EXCEPT ![c].td = td]
    <3>1. conn[c].prepared = TRUE
      BY <2>2, <2>3
    <3> QED BY <2>1, <2>3, <3>1
  <2>5. conn[c].table \in Seq(Rowgroups)
    BY <1>1, <2>3, TablesAssumption DEF Connection
  <2>6. Fits(td, conn[c].table)
    BY <2>1, <2>5, SpelledFits
  <2>7. /\ conn'[c].td = td /\ conn'[c].table = conn[c].table
        /\ conn'[c].prepared = conn[c].prepared /\ \A d \in Conns \ {c} : conn'[d] = conn[d]
    BY <1>1, <2>4 DEF Connection
  <2> QED BY <2>3, <2>6, <2>7, CallKeeps DEF ConnectionInv
<1> QED BY <1>2, <1>3, <1>4, <1>5

-----------------------------------------------------------------------------
(* The steps of to_fls *)

\* to_fls begins with a path where no file is.
LEMMA StartKeepsIInv ==
  ASSUME IInv, TypeInv', NEW c \in Conns, NEW f \in Files, StartToFls(c, f)
  PROVE  IInv'
<1>1. /\ Idle(c) /\ disk[f] = None /\ ~ BeingWritten(f)
      /\ conn[c].table \in Tables /\ conn[c].table \in Seq(Rowgroups)
      /\ \A d \in Conns \ {c} : conn'[d] = conn[d] /\ job'[d] = job[d]
      /\ conn'[c].table = conn[c].table /\ conn'[c].prepared
      /\ conn'[c].td = DescriptorFor(conn[c])
      /\ job'[c] = ToFls(f, "nothing", 0, 1)
      /\ promised'[f] = conn[c].table
      /\ \A g \in Files \ {f} : promised'[g] = promised[g]
      /\ UNCHANGED <<disk, external, reader, described>>
  BY StartFacts, TablesAssumption DEF IInv
<1>2. job'[c].file = f /\ job'[c].done = "nothing" /\ job'[c].rowgroup_idx = 0
      /\ job'[c].cur_rowgroup_offset = 1
  BY <1>1 DEF ToFls
<1>3. ConnectionInv(c)'
  <2>1. conn[c].table # None
    BY <1>1, NoneAssumption
  <2>2. Fits(DescriptorFor(conn[c]), conn[c].table)
    BY <1>1, SpelledFits DEF DescriptorFor, IInv, ConnectionInv
  <2> QED BY <1>1, <2>1, <2>2 DEF ConnectionInv
<1>4. JobInv(c)'
  BY <1>1, <1>2 DEF JobInv, Progress, AtStart, DescribedBy
<1>5. ~ Verified(f) /\ ~ Verified(f)'
  BY <1>1 DEF Verified
<1>6. Complete(f)'
  BY <1>5 DEF Complete
<1>7. \A d \in Conns \ {c} : ~ Idle(d) => job[d].file # f
  BY <1>1 DEF BeingWritten
<1>8. \A g \in Files \ {f} : LeftAlone(g)
  BY <1>1 DEF LeftAlone
<1> QED BY <1>1, <1>2, <1>3, <1>4, <1>5, <1>6, <1>7, <1>8, WriteKeeps

\* What a to_fls that has begun keeps to: its file, and the descriptor next to
\* it.
LEMMA OnlyItsFile ==
  ASSUME IInv, NEW c \in Conns, ~ Idle(c), NEW cell \in Cell, NEW x,
         \/ UNCHANGED <<disk, external, described>>
         \/ AppendCell(job[c].file, cell)
         \/ ReplaceExternal(job[c].file, x),
         UNCHANGED promised
  PROVE  /\ \A d \in Conns \ {c} : ~ Idle(d) => job[d].file # job[c].file
         /\ \A g \in Files \ {job[c].file} : LeftAlone(g) /\ promised'[g] = promised[g]
         /\ ~ Verified(job[c].file) /\ job[c].file \in Files
<1>1. job[c].file \in Files /\ disk \in [Files -> Seq(Cell) \cup {None}] /\ TypeInv
  BY JobFacts DEF IInv
<1>2. \A g \in Files \ {job[c].file} : LeftAlone(g)
  <2>1. CASE UNCHANGED <<disk, external, described>>
    BY <2>1 DEF LeftAlone
  <2>2. CASE AppendCell(job[c].file, cell)
    <3>1. disk' = Appended(job[c].file, cell) /\ UNCHANGED <<external, described>>
      BY <2>2 DEF AppendCell
    <3>2. \A g \in Files \ {job[c].file} : disk'[g] = disk[g]
      BY <1>1, <3>1, AppendedFacts
    <3> QED BY <3>1, <3>2 DEF LeftAlone
  <2>3. CASE ReplaceExternal(job[c].file, x)
    <3>1. /\ UNCHANGED disk /\ described'[DirOf[job[c].file]] = job[c].file
          /\ \A d \in Dirs \ {DirOf[job[c].file]} :
               external'[d] = external[d] /\ described'[d] = described[d]
      BY <1>1, <2>3, Replaced
    <3>2. \A g \in Files : DirOf[g] \in Dirs
      BY DirOfAssumption
    <3> QED BY <3>1, <3>2 DEF LeftAlone
  <2> QED BY <2>1, <2>2, <2>3
<1>3. \A d \in Conns \ {c} : ~ Idle(d) => job[d].file # job[c].file
  BY DEF IInv, OneWriter
<1>4. ~ Verified(job[c].file)
  BY WritingUnverified DEF IInv
<1> QED BY <1>1, <1>2, <1>3, <1>4

\* A to_fls that goes on: its file is as far as it is, and does not verify.
LEMMA GoesOn ==
  ASSUME TypeInv', NEW c \in Conns, NEW f \in Files, ~ Idle(c)', job'[c].file = f, JobInv(c)'
  PROVE  ~ Verified(f)' /\ Complete(f)'
<1>1. /\ job'[c] \in Job /\ conn'[c] \in Connection /\ conn'[c].table # None
      /\ disk' \in [Files -> Seq(Cell) \cup {None}]
  BY DEF TypeInv, TypeOK, Idle
<1>2. conn'[c].table \in Seq(Rowgroups)
  BY <1>1, TablesAssumption DEF Connection
<1>3. Progress(job'[c], conn'[c], disk'[f])
  BY DEF JobInv
<1>4. Len(conn'[c].table) \in Nat /\ disk'[f] \in Seq(Cell) \cup {None}
  BY <1>1, <1>2
<1>5. ~ Verified(f)'
  BY <1>1, <1>3, <1>4, UnfinishedCells DEF Verified
<1> QED BY <1>5 DEF Complete

\* Rowgroups stay where they stand when something is appended behind them.
LEMMA StandsStays ==
  ASSUME NEW cells \in Seq(Cell), NEW cell \in Cell, NEW t, NEW td, NEW new, NEW i \in Nat,
         i + 1 <= Len(cells), Stands(cells, t, td, i),
         new.offset = td.offset, new.spelling = td.spelling
  PROVE  /\ Stands(Append(cells, cell), t, new, i)
         /\ Append(cells, cell)[1] = cells[1] /\ Len(Append(cells, cell)) = Len(cells) + 1
         /\ Append(cells, cell)[Len(cells) + 1] = cell
<1>1. /\ \A k \in 1 .. Len(cells) : Append(cells, cell)[k] = cells[k]
      /\ Len(Append(cells, cell)) = Len(cells) + 1 /\ Append(cells, cell)[Len(cells) + 1] = cell
  OBVIOUS
<1>2. \A k \in 1 .. i : k + 1 \in 1 .. Len(cells)
  OBVIOUS
<1>3. Stands(Append(cells, cell), t, new, i)
  BY <1>1, <1>2 DEF Stands
<1> QED BY <1>1, <1>3

\* One more rowgroup stands behind the others.
LEMMA StandsGrows ==
  ASSUME NEW cells \in Seq(Cell), NEW cell \in Cell, NEW t, NEW td, NEW new, NEW i \in Nat,
         Len(cells) = i + 1, Stands(cells, t, td, i),
         cell = RowgroupCell(t[i + 1], td.spelling[i + 1]), new.spelling = td.spelling,
         \A k \in 1 .. i : new.offset[k] = td.offset[k], new.offset[i + 1] = i + 1
  PROVE  Stands(Append(cells, cell), t, new, i + 1) /\ Len(Append(cells, cell)) = i + 2
         /\ Append(cells, cell)[1] = cells[1]
<1>1. /\ \A k \in 1 .. Len(cells) : Append(cells, cell)[k] = cells[k]
      /\ Len(Append(cells, cell)) = Len(cells) + 1 /\ Append(cells, cell)[i + 2] = cell
  OBVIOUS
<1>2. \A k \in 1 .. i : k + 1 \in 1 .. Len(cells)
  OBVIOUS
<1>3. \A k \in 1 .. i + 1 : k \in 1 .. i \/ k = i + 1
  OBVIOUS
<1>4. \A k \in 1 .. i : new.offset[k] = k
        /\ Append(cells, cell)[k + 1] = RowgroupCell(t[k], new.spelling[k])
  BY <1>1, <1>2 DEF Stands
<1>5. Append(cells, cell)[i + 1 + 1] = RowgroupCell(t[i + 1], new.spelling[i + 1])
  BY <1>1
<1> QED BY <1>1, <1>3, <1>4, <1>5 DEF Stands

\* The header is the first cell of the file.
LEMMA HeaderKeepsIInv ==
  ASSUME IInv, TypeInv', NEW c \in Conns, WriteHeader(c)
  PROVE  IInv'
<1>1. PICK f \in Files : f = job[c].file
  BY HeaderFacts, JobFacts DEF IInv
<1>2. PICK header : header = FileHeader(conn[c].inline_footer)
  OBVIOUS
<1>3. /\ ~ Idle(c) /\ job[c].done = "nothing"
      /\ disk' = Appended(f, header) /\ header \in Cell
      /\ \A d \in Conns \ {c} : job'[d] = job[d]
      /\ job'[c] \in Job /\ job'[c].file = f /\ job'[c].done = "header"
      /\ job'[c].rowgroup_idx = job[c].rowgroup_idx
      /\ job'[c].cur_rowgroup_offset = job[c].cur_rowgroup_offset
      /\ UNCHANGED <<conn, external, reader, promised, described>>
  BY <1>1, <1>2, HeaderFacts DEF IInv
<1>4. /\ disk[f] = None /\ job[c].rowgroup_idx = 0 /\ job[c].cur_rowgroup_offset = 1
      /\ promised[f] = conn[c].table
  BY <1>1, <1>3 DEF IInv, JobInv, Progress, AtStart, InBody, AtEnd
<1>5. disk'[f] \in Seq(Cell) /\ Len(disk'[f]) = 1 /\ disk'[f][1] = header
  BY <1>3, <1>4, JobFacts, AppendedFacts DEF IInv
<1>6. ~ Idle(c)' /\ disk'[f] # None
  BY <1>3, <1>5, AbsentAssumption DEF Idle
<1>7. Stands(disk'[f], conn[c].table, conn[c].td, 0)
  BY DEF Stands
<1>8. InBody(job'[c], conn'[c], disk'[f])
  BY <1>2, <1>3, <1>4, <1>5, <1>6, <1>7 DEF InBody
<1>9. JobInv(c)'
  BY <1>3, <1>4, <1>8 DEF JobInv, Progress, DescribedBy
<1>10. ConnectionInv(c)'
  BY <1>3 DEF IInv, ConnectionInv
<1>11. Complete(f)'
  BY <1>3, <1>6, <1>9, GoesOn
<1>12. AppendCell(job[c].file, header)
  BY <1>1, <1>3 DEF AppendCell
<1> QED BY <1>1, <1>3, <1>9, <1>10, <1>11, <1>12, OnlyItsFile, WriteKeeps

\* A rowgroup gets the place its descriptor names.
LEMMA RowgroupKeepsIInv ==
  ASSUME IInv, TypeInv', NEW c \in Conns, AppendRowgroup(c)
  PROVE  IInv'
<1>1. PICK i : i = job[c].rowgroup_idx + 1
  OBVIOUS
<1>2. ~ Idle(c) /\ TypeInv
  BY <1>1, RowgroupFacts DEF IInv
<1>3. PICK f \in Files : f = job[c].file
  BY <1>2, JobFacts
<1>4. PICK cell : cell = RowgroupCell(conn[c].table[i], conn[c].td.spelling[i])
  OBVIOUS
<1>5. /\ job[c].done = "header" /\ i \in DOMAIN conn[c].table
      /\ cell \in Cell /\ disk' = Appended(f, cell)
      /\ \A d \in Conns \ {c} : conn'[d] = conn[d]
      /\ conn'[c].table = conn[c].table /\ conn'[c].prepared = conn[c].prepared
      /\ conn'[c].inline_footer = conn[c].inline_footer
      /\ conn'[c].td.spelling = conn[c].td.spelling
      /\ conn'[c].td.offset[i] = job[c].cur_rowgroup_offset
      /\ \A k \in DOMAIN conn[c].td.offset \ {i} : conn'[c].td.offset[k] = conn[c].td.offset[k]
      /\ \A d \in Conns \ {c} : job'[d] = job[d]
      /\ job'[c] \in Job /\ job'[c].file = f /\ job'[c].done = "header"
      /\ job'[c].rowgroup_idx = i
      /\ job'[c].cur_rowgroup_offset = job[c].cur_rowgroup_offset + 1
      /\ UNCHANGED <<external, reader, promised, described>>
  BY <1>1, <1>2, <1>3, <1>4, RowgroupFacts, SMTT(30)
<1>6. /\ job[c].rowgroup_idx \in Nat /\ i \in Nat /\ conn[c].td # None
      /\ conn[c].table \in Seq(Rowgroups)
      /\ DOMAIN conn[c].td.offset = DOMAIN conn[c].td.spelling
      /\ disk \in [Files -> Seq(Cell) \cup {None}]
  BY <1>1, <1>2, JobFacts, NoneAssumption
<1>7. Fits(conn[c].td, conn[c].table) /\ conn[c].table # None /\ conn[c].prepared
  BY <1>6 DEF IInv, ConnectionInv
<1>8. /\ promised[f] = conn[c].table /\ InBody(job[c], conn[c], disk[f])
  BY <1>2, <1>3, <1>5 DEF IInv, JobInv, Progress, AtStart, AtEnd
<1>9. /\ disk[f] # None /\ disk[f] \in Seq(Cell) /\ disk'[f] = Append(disk[f], cell)
      /\ disk'[f] \in Seq(Cell)
  BY <1>5, <1>6, <1>8, AppendedFacts DEF InBody
<1>10. \A k \in 1 .. job[c].rowgroup_idx : conn'[c].td.offset[k] = conn[c].td.offset[k]
  <2>1. \A k \in 1 .. job[c].rowgroup_idx : k \in DOMAIN conn[c].table \ {i}
    BY <1>1, <1>5, <1>6
  <2> QED BY <1>5, <1>6, <1>7, <2>1 DEF Fits
<1>11. conn'[c].td.offset[job[c].rowgroup_idx + 1] = job[c].rowgroup_idx + 1
  BY <1>1, <1>5, <1>8 DEF InBody
<1>12. /\ Stands(disk'[f], conn[c].table, conn'[c].td, i) /\ Len(disk'[f]) = i + 1
       /\ disk'[f][1] = disk[f][1]
  <2>1. PICK n \in Nat : n = job[c].rowgroup_idx
    BY <1>6
  <2>2. PICK t, td, new : t = conn[c].table /\ td = conn[c].td /\ new = conn'[c].td
    OBVIOUS
  <2>3. cell \in Cell
    BY <1>5
  <2>4. PICK cells \in Seq(Cell) : cells = disk[f]
    BY <1>9
  <2>5. Len(cells) = n + 1 /\ Stands(cells, t, td, n)
    BY <1>8, <2>1, <2>2, <2>4 DEF InBody
  <2>6. cell = RowgroupCell(t[n + 1], td.spelling[n + 1])
    BY <1>1, <1>4, <2>1, <2>2
  <2>7. /\ new.spelling = td.spelling /\ \A k \in 1 .. n : new.offset[k] = td.offset[k]
        /\ new.offset[n + 1] = n + 1
    BY <1>5, <1>10, <1>11, <2>1, <2>2
  <2>8. /\ Stands(Append(cells, cell), t, new, n + 1) /\ Len(Append(cells, cell)) = n + 2
        /\ Append(cells, cell)[1] = cells[1]
    BY <2>3, <2>5, <2>6, <2>7, StandsGrows
  <2> QED BY <1>1, <1>9, <2>1, <2>2, <2>4, <2>8
<1>13. ~ Idle(c)' /\ disk'[f] # None
  BY <1>5, <1>9, AbsentAssumption DEF Idle
<1>14. InBody(job'[c], conn'[c], disk'[f])
  BY <1>1, <1>5, <1>8, <1>12, <1>13 DEF InBody
<1>15. JobInv(c)'
  BY <1>5, <1>8, <1>14 DEF JobInv, Progress, DescribedBy
<1>16. ConnectionInv(c)'
  BY <1>5, <1>7 DEF ConnectionInv, Fits
<1>17. Complete(f)'
  BY <1>5, <1>13, <1>15, GoesOn
<1>18. AppendCell(job[c].file, cell)
  BY <1>3, <1>5 DEF AppendCell
<1> QED BY <1>2, <1>3, <1>5, <1>15, <1>16, <1>17, <1>18, OnlyItsFile, WriteKeeps

\* The descriptor gets the size of the table, and goes into the file or next to
\* it.
LEMMA DescriptorKeepsIInv ==
  ASSUME IInv, TypeInv', NEW c \in Conns, WriteDescriptor(c)
  PROVE  IInv'
<1>1. ~ Idle(c) /\ TypeInv
  BY DescriptorFacts DEF IInv
<1>2. PICK f \in Files : f = job[c].file
  BY <1>1, JobFacts
<1>3. PICK td : td = conn'[c].td
  OBVIOUS
<1>4. /\ job[c].done = "header" /\ job[c].rowgroup_idx = Len(conn[c].table)
      /\ \A d \in Conns \ {c} : conn'[d] = conn[d]
      /\ conn'[c].table = conn[c].table /\ conn'[c].prepared = conn[c].prepared
      /\ conn'[c].inline_footer = conn[c].inline_footer
      /\ td.spelling = conn[c].td.spelling /\ td.offset = conn[c].td.offset
      /\ td.binary_size = job[c].cur_rowgroup_offset
      /\ DescriptorCell(td) \in Cell
      /\ conn[c].inline_footer => AppendCell(f, DescriptorCell(td))
      /\ ~ conn[c].inline_footer => ReplaceExternal(f, td)
      /\ \A d \in Conns \ {c} : job'[d] = job[d]
      /\ job'[c] \in Job /\ job'[c].file = f /\ job'[c].done = "descriptor"
      /\ job'[c].rowgroup_idx = job[c].rowgroup_idx
      /\ UNCHANGED <<reader, promised>>
  BY <1>1, <1>2, <1>3, DescriptorFacts
<1>5. /\ conn[c].table \in Seq(Rowgroups) /\ Len(conn[c].table) \in Nat /\ conn[c].td # None
      /\ disk \in [Files -> Seq(Cell) \cup {None}]
      /\ external \in [Dirs -> TableDescriptor \cup {None, Junk}]
  BY <1>1, JobFacts, NoneAssumption
<1>6. Fits(conn[c].td, conn[c].table) /\ conn[c].table # None /\ conn[c].prepared
  BY <1>5 DEF IInv, ConnectionInv
<1>7. promised[f] = conn[c].table /\ InBody(job[c], conn[c], disk[f])
  BY <1>1, <1>2, <1>4 DEF IInv, JobInv, Progress, AtStart, AtEnd
<1>8. PICK cells, t : cells = disk[f] /\ cells \in Seq(Cell) /\ t = conn[c].table
  BY <1>5, <1>7 DEF InBody
<1>9. /\ td.binary_size = Len(t) + 1 /\ Len(t) \in Nat /\ cells[1] = FileHeader(conn[c].inline_footer)
      /\ Len(cells) = Len(t) + 1 /\ cells # None /\ Stands(cells, t, conn[c].td, Len(t))
  BY <1>4, <1>5, <1>7, <1>8 DEF InBody
<1>10. AtEnd(job'[c], conn'[c], disk'[f])
  <2>1. CASE conn[c].inline_footer
    <3>1. PICK cell \in Cell : cell = DescriptorCell(td)
      BY <1>4
    <3>2. disk' = Appended(f, cell) /\ disk[f] # None
      BY <1>4, <1>8, <1>9, <2>1, <3>1 DEF AppendCell
    <3>3. disk'[f] = Append(cells, cell)
      BY <1>5, <1>8, <3>2, AppendedFacts
    <3>4. /\ Stands(Append(cells, cell), t, td, Len(t))
          /\ Append(cells, cell)[1] = cells[1]
          /\ Len(Append(cells, cell)) = Len(cells) + 1
          /\ Append(cells, cell)[Len(cells) + 1] = cell
      BY <1>4, <1>8, <1>9, StandsStays, SMTT(30)
    <3>5. /\ Stands(disk'[f], t, td, Len(t)) /\ disk'[f][1] = cells[1]
          /\ Len(disk'[f]) = Len(t) + 2 /\ disk'[f][Len(t) + 2] = DescriptorCell(td)
      BY <1>9, <3>1, <3>3, <3>4
    <3>6. disk'[f] # None
      BY <1>5, <3>2, AppendedFacts, AbsentAssumption
    <3> QED BY <1>3, <1>4, <1>8, <1>9, <2>1, <3>5, <3>6 DEF AtEnd
  <2>2. CASE ~ conn[c].inline_footer
    <3>1. disk'[f] = cells
      BY <1>4, <1>8, <2>2 DEF ReplaceExternal
    <3>2. Stands(cells, t, td, Len(t))
      BY <1>4, <1>9 DEF Stands
    <3> QED BY <1>3, <1>4, <1>8, <1>9, <2>2, <3>1, <3>2 DEF AtEnd
  <2> QED BY <2>1, <2>2
<1>11. JobInv(c)'
  <2>1. DescribedBy(c, f)'
    <3>1. ~ conn[c].inline_footer => external'[DirOf[f]] = td
      BY <1>1, <1>4, Replaced
    <3> QED BY <1>3, <1>4, <3>1 DEF DescribedBy
  <2> QED BY <1>4, <1>7, <1>10, <2>1 DEF JobInv, Progress
<1>12. ConnectionInv(c)'
  <2>1. Fits(td, conn[c].table)
    BY <1>4, <1>6 DEF Fits
  <2> QED BY <1>3, <1>4, <1>6, <2>1 DEF ConnectionInv
<1>13. ~ Idle(c)'
  BY <1>4, AbsentAssumption DEF Idle
<1>14. Complete(f)'
  BY <1>4, <1>11, <1>13, GoesOn
<1>15. /\ \A d \in Conns \ {c} : ~ Idle(d) => job[d].file # f
       /\ \A g \in Files \ {f} : LeftAlone(g) /\ promised'[g] = promised[g]
       /\ ~ Verified(f)
  <2>1. PICK cell \in Cell : cell = DescriptorCell(td)
    BY <1>4
  <2>2. AppendCell(job[c].file, cell) \/ ReplaceExternal(job[c].file, td)
    BY <1>2, <1>4, <2>1
  <2>3. UNCHANGED promised
    BY <1>4
  <2>4. /\ \A d \in Conns \ {c} : ~ Idle(d) => job[d].file # job[c].file
        /\ \A g \in Files \ {job[c].file} : LeftAlone(g) /\ promised'[g] = promised[g]
        /\ ~ Verified(job[c].file)
    BY <1>1, <2>2, <2>3, OnlyItsFile
  <2> QED BY <1>2, <2>4
<1> QED BY <1>4, <1>11, <1>12, <1>14, <1>15, WriteKeeps

\* With its footer, a file verifies and reads back as the table it was written
\* from.
LEMMA Published ==
  ASSUME NEW f \in Files, NEW cells \in Seq(Cell), NEW j, NEW cn,
         AtEnd(j, cn, cells), cn.table \in Seq(Rowgroups), cn.td \in TableDescriptor,
         Fits(cn.td, cn.table), DOMAIN cn.td.offset = DOMAIN cn.td.spelling,
         cn.inline_footer \in BOOLEAN,
         NEW footer \in Cell, footer = FileFooter(cn.td.binary_size),
         disk'[f] = Append(cells, footer), disk'[f] # None,
         cn.inline_footer \/ external'[DirOf[f]] = cn.td
  PROVE  Verified(f)' /\ ReadBack(f)' = cn.table
<1>0. PICK whole : whole = Append(cells, footer) /\ whole \in Seq(Cell)
  <2>1. Append(cells, footer) \in Seq(Cell)
    OBVIOUS
  <2> QED BY <2>1
<1>1. PICK n, t, td :
        /\ n = Len(cn.table) /\ n \in Nat /\ t = cn.table /\ td = cn.td
  <2>1. Len(cn.table) \in Nat
    OBVIOUS
  <2> QED BY <2>1
<1>2. /\ td.binary_size = n + 1 /\ cells[1] = FileHeader(cn.inline_footer)
      /\ Stands(cells, t, td, n)
      /\ cn.inline_footer => Len(cells) = n + 2 /\ cells[n + 2] = DescriptorCell(td)
      /\ ~ cn.inline_footer => Len(cells) = n + 1 /\ external'[DirOf[f]] = td
  BY <1>1 DEF AtEnd
<1>3. n + 1 <= Len(cells)
  BY <1>1, <1>2
<1>4. /\ Stands(whole, t, td, n) /\ whole[1] = cells[1]
      /\ Len(whole) = Len(cells) + 1 /\ whole[Len(cells) + 1] = footer
  BY <1>0, <1>1, <1>2, <1>3, StandsStays
<1>5. /\ \A k \in 1 .. Len(cells) : whole[k] = cells[k]
      /\ DOMAIN whole = 1 .. Len(cells) + 1 /\ Len(cells) \in Nat
  BY <1>0
<1>6. At(whole, Len(whole) - 1) = footer
  <2>1. Len(whole) > 0
    BY <1>4, <1>5
  <2>2. At(whole, Len(whole) - 1) = whole[Len(whole)]
    BY <1>0, <2>1, LastCell
  <2> QED BY <1>4, <2>2
<1>7. At(whole, 0) = cells[1]
  <2>1. 0 + 1 \in DOMAIN whole
    BY <1>5
  <2> QED BY <1>4, <2>1 DEF At
<1>8. Verified(f)'
  <2>1. footer.kind = "footer" /\ cells[1].kind = "header"
    BY <1>2 DEF FileFooter, FileHeader
  <2> QED BY <1>0, <1>6, <1>7, <2>1 DEF Verified
<1>9. Last(whole).table_descriptor_offset = n + 1
  <2>1. Last(whole) = footer
    BY <1>4 DEF Last
  <2>2. footer.table_descriptor_offset = n + 1
    BY <1>1, <1>2 DEF FileFooter
  <2> QED BY <2>1, <2>2
<1>10. DescriptorOf(f)' = td
  <2>1. whole[1].inline_footer = cn.inline_footer
    BY <1>2, <1>4 DEF FileHeader
  <2>2. CASE cn.inline_footer
    <3>1. At(whole, n + 1) = DescriptorCell(td)
      <4>1. n + 1 + 1 \in DOMAIN whole /\ whole[n + 1 + 1] = DescriptorCell(td)
        BY <1>1, <1>2, <1>5, <2>2
      <4> QED BY <4>1 DEF At
    <3>2. At(whole, n + 1).kind = "descriptor" /\ At(whole, n + 1).td = td
      BY <3>1 DEF DescriptorCell
    <3> QED BY <1>0, <1>9, <2>1, <2>2, <3>2 DEF DescriptorOf
  <2>3. CASE ~ cn.inline_footer
    BY <1>0, <1>2, <2>1, <2>3 DEF DescriptorOf
  <2> QED BY <2>2, <2>3
<1>11. td \notin {Junk, None} /\ DOMAIN td.offset = DOMAIN t /\ DOMAIN t = 1 .. n
  BY <1>1, NoneAssumption DEF Fits
<1>12. \A k \in 1 .. n : ReadRowgroup(f, td, k)' = t[k]
  <2> SUFFICES ASSUME NEW k \in 1 .. n PROVE ReadRowgroup(f, td, k)' = t[k]
    OBVIOUS
  <2>1. td.offset[k] = k /\ whole[k + 1] = RowgroupCell(t[k], td.spelling[k])
    BY <1>4 DEF Stands
  <2>2. At(whole, td.offset[k]) = RowgroupCell(t[k], td.spelling[k])
    <3>1. k + 1 \in DOMAIN whole
      BY <1>1, <1>3, <1>5
    <3> QED BY <2>1, <3>1 DEF At
  <2>3. td.spelling[k] = [of |-> t[k], prepared |-> TRUE]
    BY <1>1, <1>11 DEF Fits
  <2>4. PICK cell : cell = At(whole, td.offset[k])
    OBVIOUS
  <2>5. cell.kind = "rowgroup" /\ cell.rowgroup = t[k] /\ cell.spelling = td.spelling[k]
    BY <2>2, <2>4 DEF RowgroupCell
  <2> QED BY <1>0, <2>3, <2>4, <2>5 DEF ReadRowgroup
<1>13. ReadBack(f)' = [k \in 1 .. n |-> t[k]]
  BY <1>10, <1>11, <1>12 DEF ReadBack
<1>14. t = [k \in 1 .. n |-> t[k]]
  BY <1>1
<1> QED BY <1>1, <1>8, <1>13, <1>14

\* What the footer of a to_fls makes of its file, if the descriptor next to it is
\* still its own.
LEMMA FooterPublishes ==
  ASSUME IInv, NEW c \in Conns, NEW f \in Files, f = job[c].file, WriteFooter(c)
  PROVE  /\ ~ Verified(f)
         /\ OwnDescriptor(f)' => Verified(f)' /\ ReadBack(f)' = conn[c].table
         /\ conn[c].table \in Tables /\ promised[f] = conn[c].table
<1>1. PICK footer \in Cell : footer = FileFooter(conn[c].td.binary_size)
  BY FooterFacts DEF IInv
<1>2. /\ ~ Idle(c) /\ job[c].done = "descriptor" /\ disk' = Appended(f, footer)
      /\ UNCHANGED <<conn, external, reader, promised, described>>
  BY <1>1, FooterFacts DEF IInv
<1>3. PICK cn : cn = conn[c]
  OBVIOUS
<1>4. /\ cn.table \in Tables /\ cn.table \in Seq(Rowgroups) /\ cn.td \in TableDescriptor
      /\ DOMAIN cn.td.offset = DOMAIN cn.td.spelling /\ cn.inline_footer \in BOOLEAN
      /\ disk \in [Files -> Seq(Cell) \cup {None}]
  BY <1>2, <1>3, JobFacts DEF IInv
<1>5. Fits(cn.td, cn.table)
  BY <1>3, <1>4, NoneAssumption DEF IInv, ConnectionInv
<1>6. promised[f] = cn.table /\ AtEnd(job[c], cn, disk[f]) /\ DescribedBy(c, f)
  BY <1>2, <1>3 DEF IInv, JobInv, Progress, AtStart, InBody
<1>7. PICK cells \in Seq(Cell) : cells = disk[f]
  BY <1>4, <1>6 DEF AtEnd
<1>8. AtEnd(job[c], cn, cells)
  BY <1>6, <1>7
<1>9. disk'[f] = Append(cells, footer) /\ disk'[f] # None
  BY <1>2, <1>4, <1>6, <1>7, AppendedFacts, AbsentAssumption, ZenonT(30) DEF AtEnd
<1>10. footer = FileFooter(cn.td.binary_size)
  BY <1>1, <1>3
<1>11. ASSUME OwnDescriptor(f)' PROVE Verified(f)' /\ ReadBack(f)' = cn.table
  <2>1. disk'[f][1].inline_footer = cn.inline_footer
    <3>1. cells[1].inline_footer = cn.inline_footer /\ Len(cells) \in Nat \ {0}
      BY <1>4, <1>8, TablesAssumption DEF AtEnd, FileHeader
    <3>2. Append(cells, footer)[1] = cells[1]
      BY <3>1
    <3> QED BY <1>9, <3>1, <3>2
  <2>2. cn.inline_footer \/ described'[DirOf[f]] = f
    BY <1>11, <2>1 DEF OwnDescriptor
  <2>3. cn.inline_footer \/ external'[DirOf[f]] = cn.td
    BY <1>2, <1>3, <1>6, <2>2 DEF DescribedBy
  <2> QED BY <1>4, <1>5, <1>8, <1>9, <1>10, <2>3, Published
<1>12. ~ Verified(f)
  BY <1>2, WritingUnverified DEF IInv
<1> QED BY <1>3, <1>4, <1>6, <1>11, <1>12

\* to_fls returns.
LEMMA FooterKeepsIInv ==
  ASSUME IInv, TypeInv', NEW c \in Conns, WriteFooter(c)
  PROVE  IInv'
<1>1. PICK footer \in Cell : footer = FileFooter(conn[c].td.binary_size)
  BY FooterFacts DEF IInv
<1>2. /\ ~ Idle(c) /\ AppendCell(job[c].file, footer)
      /\ UNCHANGED <<conn, external, reader, promised, described>>
      /\ job'[c] = None /\ \A d \in Conns \ {c} : job'[d] = job[d]
  BY <1>1, FooterFacts DEF IInv, AppendCell
<1>3. PICK f \in Files : f = job[c].file
  BY <1>2, JobFacts DEF IInv
<1>4. Complete(f)'
  BY <1>2, <1>3, FooterPublishes DEF Complete
<1>5. ConnectionInv(c)' /\ JobInv(c)'
  BY <1>2 DEF IInv, ConnectionInv, JobInv, Idle
<1> QED BY <1>2, <1>3, <1>4, <1>5, OnlyItsFile, WriteKeeps

\* to_fls stops somewhere: its file does not verify, and no other is touched.
LEMMA StopLeaves ==
  ASSUME IInv, NEW c \in Conns, ~ Idle(c), Throw(c) \/ Crash(c),
         NEW f \in Files, f = job[c].file
  PROVE  /\ \A d \in Conns \ {c} : ~ Idle(d) => job[d].file # f
         /\ \A g \in Files \ {f} : LeftAlone(g) /\ promised'[g] = promised[g]
         /\ ~ Verified(f) /\ ~ Verified(f)'
<1>1. UNCHANGED promised
  BY StopFacts DEF IInv
<1>2. PICK torn \in Cell : torn = Torn
  BY CellType
<1>3. \/ UNCHANGED <<disk, external, described>>
      \/ ReplaceExternal(f, Junk)
      \/ AppendCell(f, torn)
  BY <1>2, StopFacts DEF IInv
<1>4. /\ \A d \in Conns \ {c} : ~ Idle(d) => job[d].file # f
      /\ \A g \in Files \ {f} : LeftAlone(g) /\ promised'[g] = promised[g]
      /\ ~ Verified(f)
  BY <1>1, <1>3, OnlyItsFile
<1>5. ~ Verified(f)'
  <2>1. CASE UNCHANGED disk
    BY <1>4, <2>1 DEF Verified
  <2>2. CASE disk' = Appended(f, torn)
    <3>1. disk \in [Files -> Seq(Cell) \cup {None}]
      BY DEF IInv, TypeInv, TypeOK
    <3>2. PICK grown \in Seq(Cell) : grown = disk'[f]
      BY <2>2, <3>1, AppendedFacts
    <3>3. Len(grown) > 0 /\ grown[Len(grown)] = torn
      <4>1. CASE disk[f] = None
        <5>1. Len(grown) = 1 /\ grown[1] = torn
          BY <2>2, <3>1, <3>2, <4>1, AppendedFacts
        <5> QED BY <5>1
      <4>2. CASE disk[f] # None
        <5>1. disk[f] \in Seq(Cell) /\ grown = Append(disk[f], torn)
          BY <2>2, <3>1, <3>2, <4>2, AppendedFacts
        <5> QED BY <5>1
      <4> QED BY <4>1, <4>2
    <3>4. At(grown, Len(grown) - 1) = torn
      BY <3>3, LastCell
    <3> QED BY <1>2, <3>2, <3>4 DEF Verified, Torn
  <2> QED BY <1>3, <2>1, <2>2 DEF ReplaceExternal, AppendCell
<1> QED BY <1>4, <1>5

\* to_fls stops, and is forgotten.
LEMMA StopKeepsIInv ==
  ASSUME IInv, TypeInv', NEW c \in Conns, Throw(c) \/ Crash(c)
  PROVE  IInv'
<1>1. /\ \A d \in Conns \ {c} : conn'[d] = conn[d] /\ job'[d] = job[d]
      /\ job'[c] = None /\ UNCHANGED <<reader, promised>>
      /\ job' \in [Conns -> Job \cup {None}] /\ job \in [Conns -> Job \cup {None}]
  BY StopFacts DEF IInv, TypeInv, TypeOK
<1>2. ConnectionInv(c)'
  <2>1. NewConnection.td = None
    BY DEF NewConnection
  <2>2. conn'[c] = conn[c] \/ conn'[c] = NewConnection
    BY StopFacts DEF IInv
  <2> QED BY <2>1, <2>2 DEF IInv, ConnectionInv
<1>3. JobInv(c)'
  BY <1>1 DEF JobInv, Idle
<1>4. CASE Idle(c)
  <2>1. UNCHANGED <<disk, external, described>>
    BY <1>4, StopFacts DEF IInv
  <2>2. job' = job
    BY <1>1, <1>4 DEF Idle
  <2> QED BY <1>1, <1>2, <1>4, <2>1, <2>2, CallKeeps
<1>5. CASE ~ Idle(c)
  <2>1. PICK f \in Files : f = job[c].file
    BY <1>5, JobFacts DEF IInv
  <2>2. /\ \A d \in Conns \ {c} : ~ Idle(d) => job[d].file # f
        /\ \A g \in Files \ {f} : LeftAlone(g) /\ promised'[g] = promised[g]
        /\ ~ Verified(f) /\ ~ Verified(f)'
    BY <1>5, <2>1, StopLeaves
  <2>3. Complete(f)'
    BY <2>2 DEF Complete
  <2> QED BY <1>1, <1>2, <1>3, <2>2, <2>3, WriteKeeps
<1> QED BY <1>4, <1>5

-----------------------------------------------------------------------------
(* Readers and the file system *)

\* A reader does something, and no file changes.
LEMMA ReaderKeeps ==
  ASSUME IInv, TypeInv', UNCHANGED <<conn, job, disk, external, promised, described>>, ReaderInv'
  PROVE  IInv'
<1>1. \A d \in Conns : ConnectionInv(d)' /\ JobInv(d)'
  BY DEF IInv, ConnectionInv, JobInv, DescribedBy, Idle
<1>2. OneWriter'
  BY DEF IInv, OneWriter, Idle
<1>3. \A f \in Files : Complete(f)'
  BY CompleteStays DEF IInv, LeftAlone
<1> QED BY <1>1, <1>2, <1>3 DEF IInv

\* A reader that opens with the descriptor of its file finds the table.
LEMMA OpensPromised ==
  ASSUME IInv, NEW f \in Files, ReadFls(f), OwnDescriptor(f)
  PROVE  /\ promised[f] \in Tables
         /\ DOMAIN DescriptorOf(f).offset = DOMAIN promised[f]
         /\ \A k \in DOMAIN promised[f] :
              ReadRowgroup(f, DescriptorOf(f), k) = promised[f][k]
<1>1. PICK td \in TableDescriptor : td = DescriptorOf(f)
  BY ReadFlsFacts DEF IInv
<1>2. promised[f] \in Tables /\ ReadBack(f) = promised[f]
  BY ReadFlsFacts DEF IInv, Complete
<1>3. ReadBack(f) = [k \in DOMAIN td.offset |-> ReadRowgroup(f, td, k)]
  BY <1>1, NoneAssumption DEF ReadBack
<1> QED BY <1>1, <1>2, <1>3

\* The reader opens.
LEMMA ReadFlsKeepsIInv ==
  ASSUME IInv, TypeInv', NEW f \in Files, ReadFls(f)
  PROVE  IInv'
<1>1. /\ Verified(f) /\ reader'.file = f /\ reader'.td = DescriptorOf(f) /\ reader'.table = <<>>
      /\ (reader'.own <=> OwnDescriptor(f))
      /\ UNCHANGED <<conn, job, disk, external, promised, described>>
  BY ReadFlsFacts DEF IInv
<1>2. ASSUME OwnDescriptor(f) PROVE ReaderInv'
  <2>1. PICK td : td = DescriptorOf(f)
    OBVIOUS
  <2>2. /\ promised[f] \in Tables /\ DOMAIN td.offset = DOMAIN promised[f]
        /\ \A k \in DOMAIN promised[f] : ReadRowgroup(f, td, k) = promised[f][k]
    BY <1>2, <2>1, OpensPromised
  <2>3. \A k : ReadRowgroup(f, td, k)' = ReadRowgroup(f, td, k)
    BY <1>1, UntouchedFile DEF LeftAlone
  <2>4. Verified(f)'
    BY <1>1, UntouchedFile DEF LeftAlone
  <2>5. Len(reader'.table) = 0 /\ promised[f] \in Seq(Rowgroups)
    BY <1>1, <2>2, TablesAssumption
  <2>6. \A k \in DOMAIN promised[f] : ReadRowgroup(f, td, k)' = promised[f][k]
    BY <2>2, <2>3
  <2>7. reader'.file = f /\ reader'.td = td /\ promised' = promised
    BY <1>1, <2>1
  <2> QED BY <2>2, <2>4, <2>5, <2>6, <2>7 DEF ReaderInv
<1>3. ReaderInv'
  BY <1>1, <1>2 DEF ReaderInv
<1> QED BY <1>1, <1>3, ReaderKeeps

\* A file that nobody writes is removed, under a reader of it or not.
LEMMA RemoveKeepsIInv ==
  ASSUME IInv, TypeInv', NEW f \in Files, RemoveFile(f)
  PROVE  IInv'
<1>1. /\ ~ BeingWritten(f)
      /\ disk' = [disk EXCEPT ![f] = None] /\ promised' = [promised EXCEPT ![f] = None]
      /\ UNCHANGED <<conn, job, external, described>>
  BY DEF RemoveFile
<1>2. /\ disk'[f] = None
      /\ \A g \in Files \ {f} : disk'[g] = disk[g] /\ promised'[g] = promised[g]
  BY <1>1 DEF IInv, TypeInv, TypeOK
<1>3. \A d \in Conns : ~ Idle(d) => job[d].file \in Files \ {f}
  BY <1>1, JobFacts DEF IInv, BeingWritten
<1>4. \A d \in Conns : ConnectionInv(d)' /\ JobInv(d)'
  BY <1>1, <1>2, <1>3 DEF IInv, ConnectionInv, JobInv, DescribedBy, Idle
<1>5. OneWriter'
  BY <1>1 DEF IInv, OneWriter, Idle
<1>6. \A g \in Files : Complete(g)'
  <2>1. Complete(f)'
    BY <1>2 DEF Complete, Verified
  <2>2. \A g \in Files \ {f} : Complete(g)'
    BY <1>1, <1>2, CompleteStays DEF IInv, LeftAlone
  <2> QED BY <2>1, <2>2
<1>7. ReaderInv'
  <2>1. CASE reader # None /\ reader.file = f
    BY <2>1 DEF RemoveFile, ReaderInv
  <2>2. CASE ~ (reader # None /\ reader.file = f)
    <3>1. UNCHANGED reader
      BY <2>2 DEF RemoveFile
    <3>2. reader # None => reader.file \in Files \ {f}
      BY <2>2 DEF IInv, TypeInv, TypeOK, Reader
    <3> QED BY <1>2, <3>1, <3>2, ReaderStays DEF IInv
  <2> QED BY <2>1, <2>2
<1> QED BY <1>4, <1>5, <1>6, <1>7 DEF IInv

\* A reader takes the rowgroup of the table at its place.
LEMMA MaterializeKeepsIInv ==
  ASSUME IInv, TypeInv', MaterializeRowgroup
  PROVE  IInv'
<1>1. PICK i : i = Len(reader.table) + 1
  OBVIOUS
<1>2. PICK r : r = ReadRowgroup(reader.file, reader.td, i)
  OBVIOUS
<1>3. /\ reader \in Reader /\ i \in DOMAIN reader.td.offset
      /\ reader' \in Reader /\ reader'.file = reader.file /\ reader'.td = reader.td
      /\ reader'.own = reader.own /\ reader'.table = Append(reader.table, r)
      /\ UNCHANGED <<conn, job, disk, external, promised, described>>
  BY <1>1, <1>2, MaterializeFacts DEF IInv
<1>4. reader # None
  BY DEF MaterializeRowgroup
<1>5. ASSUME reader.own PROVE ReaderInv'
  <2>1. PICK f \in Files, td \in TableDescriptor : f = reader.file /\ td = reader.td
    BY <1>3 DEF Reader
  <2>2. PICK t \in Seq(Rowgroups) : t = promised[f]
    BY <1>4, <1>5, <2>1, TablesAssumption DEF IInv, ReaderInv
  <2>3. /\ Verified(f) /\ t \in Tables /\ DOMAIN td.offset = DOMAIN t
        /\ \A k \in DOMAIN t : ReadRowgroup(f, td, k) = t[k]
    BY <1>4, <1>5, <2>1, <2>2 DEF IInv, ReaderInv
  <2>4. i \in DOMAIN t /\ r = t[i]
    BY <1>2, <1>3, <2>1, <2>3
  <2>5. PICK old \in Seq(Rowgroups \cup {Junk}) : old = reader.table
    BY <1>3 DEF Reader
  <2>6. \A k \in 1 .. Len(old) : old[k] = t[k]
    BY <1>4, <1>5, <2>1, <2>2, <2>5 DEF IInv, ReaderInv
  <2>7. /\ Len(Append(old, r)) <= Len(t)
        /\ \A k \in 1 .. Len(Append(old, r)) : Append(old, r)[k] = t[k]
    <3>1. i = Len(old) + 1
      BY <1>1, <2>5
    <3>2. /\ Len(Append(old, r)) = Len(old) + 1 /\ Append(old, r)[Len(old) + 1] = r
          /\ \A k \in 1 .. Len(old) : Append(old, r)[k] = old[k]
      BY <2>4
    <3> QED BY <2>4, <2>6, <3>1, <3>2
  <2>8. Verified(f)' /\ \A k : ReadRowgroup(f, td, k)' = ReadRowgroup(f, td, k)
    BY <1>3, <2>3, UntouchedFile DEF LeftAlone
  <2>9. \A k \in DOMAIN t : ReadRowgroup(f, td, k)' = t[k]
    BY <2>3, <2>8
  <2>10. reader'.file = f /\ reader'.td = td /\ promised'[f] = t /\ reader'.table = Append(old, r)
    BY <1>3, <2>1, <2>2, <2>5
  <2> QED BY <2>3, <2>7, <2>8, <2>9, <2>10 DEF ReaderInv
<1>6. ReaderInv'
  BY <1>3, <1>5 DEF ReaderInv
<1> QED BY <1>3, <1>6, ReaderKeeps

\* Readers and whoever removes files.
LEMMA OthersKeepIInv ==
  ASSUME IInv, TypeInv',
         \/ \E f \in Files : ReadFls(f) \/ RemoveFile(f)
         \/ MaterializeRowgroup \/ CloseReader
  PROVE  IInv'
<1>1. ASSUME CloseReader PROVE IInv'
  <2>1. ReaderInv'
    BY <1>1 DEF CloseReader, ReaderInv
  <2> QED BY <1>1, <2>1, ReaderKeeps DEF CloseReader
<1> QED BY <1>1, ReadFlsKeepsIInv, RemoveKeepsIInv, MaterializeKeepsIInv

-----------------------------------------------------------------------------
(* The theorems *)

\* The invariant holds at the start.
LEMMA InitIInv == Init => IInv
<1> SUFFICES ASSUME Init PROVE IInv
  OBVIOUS
<1>1. \A c \in Conns : Idle(c) /\ conn[c].td = None
  BY DEF Init, Idle, NewConnection
<1>2. \A f \in Files : ~ Verified(f)
  BY DEF Init, Verified
<1>3. \A c \in Conns : ConnectionInv(c) /\ JobInv(c)
  BY <1>1 DEF ConnectionInv, JobInv
<1>4. OneWriter /\ ReaderInv
  BY <1>1 DEF OneWriter, ReaderInv, Init
<1> QED BY <1>2, <1>3, <1>4, InitTypeInv DEF IInv, Complete

\* Every step keeps the invariant.
LEMMA NextIInv ==
  ASSUME RepositoryCalls
  PROVE  IInv /\ [Next]_vars => IInv'
<1> SUFFICES ASSUME IInv, [Next]_vars PROVE IInv'
  OBVIOUS
<1>1. TypeInv'
  BY NextTypeInv DEF IInv
<1>2. CASE UNCHANGED vars
  <2>1. UNCHANGED <<conn, job, disk, external, reader, promised, described>>
    BY <1>2 DEF vars
  <2>2. ReaderInv'
    BY <2>1, ReaderStays DEF IInv
  <2> QED BY <1>1, <2>1, <2>2, ReaderKeeps
<1>3. ASSUME NEW c \in Conns,
             (\E t \in Tables : Load(c, t)) \/ Reset(c) \/ InlineFooter(c) \/ Spell(c)
      PROVE  IInv'
  BY <1>1, <1>3, CallsKeepIInv
<1>4. ASSUME NEW c \in Conns, \E f \in Files : StartToFls(c, f) PROVE IInv'
  BY <1>1, <1>4, StartKeepsIInv
<1>5. ASSUME NEW c \in Conns,
             WriteHeader(c) \/ AppendRowgroup(c) \/ WriteDescriptor(c) \/ WriteFooter(c)
      PROVE  IInv'
  BY <1>1, <1>5, HeaderKeepsIInv, RowgroupKeepsIInv, DescriptorKeepsIInv, FooterKeepsIInv
<1>6. ASSUME NEW c \in Conns, Throw(c) \/ Crash(c) PROVE IInv'
  BY <1>1, <1>6, StopKeepsIInv
<1>7. ASSUME (\E f \in Files : ReadFls(f) \/ RemoveFile(f)) \/ MaterializeRowgroup \/ CloseReader
      PROVE  IInv'
  BY <1>1, <1>7, OthersKeepIInv
<1>8. CASE Next
  BY <1>3, <1>4, <1>5, <1>6, <1>7, <1>8 DEF Next
<1> QED BY <1>2, <1>8

\* What verify_fls accepts, with its own descriptor, is whole and reads back as
\* the table its to_fls was called for, for any number of connections, paths and
\* directories, where clients call what the repository's clients call.
THEOREM VerifiedIsWhole ==
  ASSUME RepositoryCalls
  PROVE  Spec => []VerifiedComplete
<1>1. IInv => VerifiedComplete
  BY DEF IInv, Complete, VerifiedComplete
<1> QED BY <1>1, InitIInv, NextIInv, PTL DEF Spec

\* A reader that was opened with the descriptor of its file hands over the
\* rowgroups of the table the file was written for, whatever connections write
\* into the directory while it is open.
THEOREM ReaderUndisturbed ==
  ASSUME RepositoryCalls
  PROVE  Spec => []ReaderSeesPublished
<1>1. IInv => ReaderSeesPublished
  <2> SUFFICES ASSUME IInv, reader # None, reader.own
               PROVE  IsPrefix(reader.table, promised[reader.file])
    BY DEF ReaderSeesPublished
  <2>1. PICK f \in Files, old \in Seq(Rowgroups \cup {Junk}) : f = reader.file /\ old = reader.table
    BY DEF IInv, TypeInv, TypeOK, Reader
  <2>2. PICK t \in Seq(Rowgroups) : t = promised[f]
    BY <2>1, TablesAssumption DEF IInv, ReaderInv
  <2>3. Len(old) <= Len(t) /\ \A k \in 1 .. Len(old) : old[k] = t[k]
    BY <2>1, <2>2 DEF IInv, ReaderInv
  <2>4. SubSeq(old, 1, Len(old)) = SubSeq(t, 1, Len(old))
    BY <2>3
  <2> QED BY <2>1, <2>2, <2>3, <2>4 DEF IsPrefix
<1> QED BY <1>1, InitIInv, NextIInv, PTL DEF Spec

-----------------------------------------------------------------------------
(* Refinement of FileCatalog *)

\* The entry of a path in the catalog.
Held(f) == IF Verified(f) /\ OwnDescriptor(f) THEN ReadBack(f) ELSE None

\* The catalog has an entry for each path.
LEMMA CatalogHeld ==
  /\ catalog = [f \in Files |-> Held(f)]
  /\ catalog' = [f \in Files |-> Held(f)']
BY DEF catalog, Held

\* A step that touches one file, and no external descriptor, changes one entry.
LEMMA CatalogStep ==
  ASSUME NEW f \in Files, \A g \in Files \ {f} : LeftAlone(g), UNCHANGED described
  PROVE  catalog' = [catalog EXCEPT ![f] = Held(f)']
<1>1. \A g \in Files \ {f} : Held(g)' = Held(g)
  <2> SUFFICES ASSUME NEW g \in Files \ {f} PROVE Held(g)' = Held(g)
    OBVIOUS
  <2>1. OwnDescriptor(g)' <=> OwnDescriptor(g)
    BY DEF OwnDescriptor, LeftAlone
  <2> QED BY <2>1, UntouchedFile DEF Held
<1> QED BY <1>1, CatalogHeld

\* It changes none if the file verifies neither before nor after.
LEMMA CatalogStays ==
  ASSUME NEW f \in Files, \A g \in Files \ {f} : LeftAlone(g), UNCHANGED described,
         ~ Verified(f), ~ Verified(f)'
  PROVE  catalog' = catalog
<1>1. catalog' = [catalog EXCEPT ![f] = None]
  BY CatalogStep DEF Held
<1>2. catalog[f] = None /\ DOMAIN catalog = Files
  BY CatalogHeld DEF Held
<1>3. catalog = [g \in Files |-> catalog[g]]
  BY CatalogHeld
<1> QED BY <1>1, <1>2, <1>3

\* It changes none if no file is touched.
LEMMA CatalogUntouched ==
  ASSUME UNCHANGED <<disk, external, described>>
  PROVE  catalog' = catalog
<1>1. \A g \in Files : Held(g)' = Held(g)
  <2> SUFFICES ASSUME NEW g \in Files PROVE Held(g)' = Held(g)
    OBVIOUS
  <2>1. LeftAlone(g) /\ (OwnDescriptor(g)' <=> OwnDescriptor(g))
    BY DEF OwnDescriptor, LeftAlone
  <2> QED BY <2>1, UntouchedFile DEF Held
<1> QED BY <1>1, CatalogHeld

\* A to_fls that replaces the descriptor of a directory may take a path from the
\* catalog, the one that descriptor was for.
LEMMA CatalogReplaced ==
  ASSUME TypeInv, NEW f \in Files, NEW x, ReplaceExternal(f, x), ~ Verified(f),
         \A g \in Files \ {f} : LeftAlone(g)
  PROVE  catalog' = catalog \/ \E h \in Files : FC!Remove(h)
<1>1. PICK h : h = described[DirOf[f]]
  OBVIOUS
<1>2. /\ UNCHANGED disk /\ described'[DirOf[f]] = f
      /\ \A d \in Dirs \ {DirOf[f]} : described'[d] = described[d]
  BY Replaced
<1>3. \A g \in Files \ {h} : Held(g)' = Held(g)
  <2> SUFFICES ASSUME NEW g \in Files \ {h} PROVE Held(g)' = Held(g)
    OBVIOUS
  <2>1. CASE g = f
    BY <1>2, <2>1 DEF Held, Verified
  <2>2. CASE g # f
    <3>1. DirOf[g] \in Dirs
      BY DirOfAssumption
    <3>2. described'[DirOf[g]] = g <=> described[DirOf[g]] = g
      BY <1>1, <1>2, <2>2, <3>1
    <3>3. OwnDescriptor(g)' <=> OwnDescriptor(g)
      BY <1>2, <3>2 DEF OwnDescriptor
    <3> QED BY <2>2, <3>3, UntouchedFile DEF Held
  <2> QED BY <2>1, <2>2
<1>4. h \in Files => Held(h)' = Held(h) \/ Held(h)' = None
  <2>1. CASE h = f
    BY <1>2, <2>1 DEF Held, Verified
  <2>2. CASE h # f /\ h \in Files
    BY <2>2, UntouchedFile DEF Held
  <2> QED BY <2>1, <2>2
<1>5. CASE h \in Files /\ Held(h)' = None
  <2>1. catalog' = [catalog EXCEPT ![h] = None]
    BY <1>3, <1>5, CatalogHeld
  <2> QED BY <1>5, <2>1 DEF FC!Remove
<1>6. CASE ~ (h \in Files /\ Held(h)' = None)
  <2>1. \A g \in Files : Held(g)' = Held(g)
    BY <1>3, <1>4, <1>6
  <2> QED BY <2>1, CatalogHeld
<1> QED BY <1>5, <1>6

\* The writes before the footer change no entry, but for the path a descriptor is
\* taken from.
LEMMA WritesUnseen ==
  ASSUME IInv, IInv', NEW c \in Conns,
         WriteHeader(c) \/ AppendRowgroup(c) \/ WriteDescriptor(c)
  PROVE  catalog' = catalog \/ \E h \in Files : FC!Remove(h)
<1>1. ~ Idle(c) /\ TypeInv
  BY DEF WriteHeader, AppendRowgroup, WriteDescriptor, IInv
<1>2. PICK f \in Files : f = job[c].file
  BY <1>1, JobFacts
<1>3. job'[c] \in Job /\ job'[c].file = f /\ UNCHANGED promised
  <2>1. CASE WriteHeader(c)
    BY <1>1, <1>2, <2>1, HeaderFacts
  <2>2. CASE AppendRowgroup(c)
    <3>1. PICK i : i = job[c].rowgroup_idx + 1
      OBVIOUS
    <3> QED BY <1>1, <1>2, <2>2, <3>1, RowgroupFacts
  <2>3. CASE WriteDescriptor(c)
    BY <1>1, <1>2, <2>3, DescriptorFacts
  <2> QED BY <2>1, <2>2, <2>3
<1>4. ~ Idle(c)'
  BY <1>3, AbsentAssumption DEF Idle
<1>5. ~ Verified(f)'
  BY <1>3, <1>4, GoesOn DEF IInv
<1>6. ~ Verified(f)
  BY <1>1, <1>2, WritingUnverified DEF IInv
<1>7. \/ \E cell \in Cell : AppendCell(f, cell)
      \/ \E x : ReplaceExternal(f, x)
  <2>1. CASE WriteHeader(c)
    BY <1>1, <1>2, <2>1, HeaderFacts DEF AppendCell
  <2>2. CASE AppendRowgroup(c)
    <3>1. PICK i : i = job[c].rowgroup_idx + 1
      OBVIOUS
    <3>2. PICK cell \in Cell : disk' = Appended(f, cell) /\ UNCHANGED <<external, described>>
      BY <1>1, <1>2, <2>2, <3>1, RowgroupFacts
    <3> QED BY <3>2 DEF AppendCell
  <2>3. CASE WriteDescriptor(c)
    BY <1>1, <1>2, <2>3, DescriptorFacts
  <2> QED BY <2>1, <2>2, <2>3
<1>8. ASSUME NEW cell \in Cell, AppendCell(f, cell) PROVE catalog' = catalog
  <2>1. \A g \in Files \ {f} : LeftAlone(g)
    BY <1>1, <1>2, <1>3, <1>8, OnlyItsFile
  <2> QED BY <1>5, <1>6, <1>8, <2>1, CatalogStays DEF AppendCell
<1>9. ASSUME NEW x, ReplaceExternal(f, x)
      PROVE  catalog' = catalog \/ \E h \in Files : FC!Remove(h)
  <2>1. PICK torn \in Cell : torn = Torn
    BY CellType
  <2>2. \A g \in Files \ {f} : LeftAlone(g)
    BY <1>1, <1>2, <1>3, <1>9, <2>1, OnlyItsFile
  <2> QED BY <1>1, <1>6, <1>9, <2>2, CatalogReplaced
<1> QED BY <1>7, <1>8, <1>9

\* Nor does a to_fls that stops.
LEMMA StopsUnseen ==
  ASSUME IInv, NEW c \in Conns, Throw(c) \/ Crash(c)
  PROVE  catalog' = catalog \/ \E h \in Files : FC!Remove(h)
<1>1. CASE UNCHANGED <<disk, external, described>>
  BY <1>1, CatalogUntouched
<1>2. ASSUME ~ Idle(c), ReplaceExternal(job[c].file, Junk) \/ AppendCell(job[c].file, Torn)
      PROVE  catalog' = catalog \/ \E h \in Files : FC!Remove(h)
  <2>1. PICK f \in Files : f = job[c].file
    BY <1>2, JobFacts DEF IInv
  <2>2. (\A g \in Files \ {f} : LeftAlone(g)) /\ ~ Verified(f) /\ ~ Verified(f)'
    BY <1>2, <2>1, StopLeaves
  <2>3. CASE ReplaceExternal(f, Junk)
    BY <2>2, <2>3, CatalogReplaced DEF IInv
  <2>4. CASE AppendCell(f, Torn)
    BY <2>2, <2>4, CatalogStays DEF AppendCell
  <2> QED BY <1>2, <2>1, <2>3, <2>4
<1> QED BY <1>1, <1>2, StopFacts DEF IInv

\* The footer publishes the table, if the descriptor is still the one of the file.
LEMMA FooterIsPublish ==
  ASSUME IInv, NEW c \in Conns, WriteFooter(c)
  PROVE  catalog' = catalog \/ \E f \in Files : \E t \in Tables : FC!Publish(f, t)
<1>1. PICK footer \in Cell : footer = FileFooter(conn[c].td.binary_size)
  BY FooterFacts DEF IInv
<1>2. ~ Idle(c) /\ AppendCell(job[c].file, footer) /\ UNCHANGED <<external, promised, described>>
  BY <1>1, FooterFacts DEF IInv, AppendCell
<1>3. PICK f \in Files : f = job[c].file
  BY <1>2, JobFacts DEF IInv
<1>4. PICK t \in Tables :
        /\ t = conn[c].table /\ ~ Verified(f)
        /\ OwnDescriptor(f)' => Verified(f)' /\ ReadBack(f)' = t
  BY <1>3, FooterPublishes
<1>5. \A g \in Files \ {f} : LeftAlone(g)
  BY <1>2, <1>3, OnlyItsFile
<1>6. catalog' = [catalog EXCEPT ![f] = Held(f)']
  BY <1>2, <1>5, CatalogStep
<1>7. catalog[f] = None /\ DOMAIN catalog = Files /\ catalog = [g \in Files |-> catalog[g]]
  BY <1>4, CatalogHeld DEF Held
<1>8. Held(f)' = t \/ Held(f)' = None
  BY <1>4 DEF Held
<1>9. CASE Held(f)' = t
  BY <1>6, <1>7, <1>9 DEF FC!Publish
<1>10. CASE Held(f)' = None
  BY <1>6, <1>7, <1>10
<1> QED BY <1>8, <1>9, <1>10

\* What removes a file removes its table.
LEMMA RemoveIsRemove ==
  ASSUME IInv, NEW f \in Files, RemoveFile(f)
  PROVE  FC!Remove(f)
<1>1. /\ disk' = [disk EXCEPT ![f] = None] /\ UNCHANGED <<external, described>>
      /\ disk \in [Files -> Seq(Cell) \cup {None}]
  BY DEF RemoveFile, IInv, TypeInv, TypeOK
<1>2. ~ Verified(f)'
  BY <1>1 DEF Verified
<1>3. \A g \in Files \ {f} : LeftAlone(g)
  BY <1>1 DEF LeftAlone
<1>4. catalog' = [catalog EXCEPT ![f] = None]
  BY <1>1, <1>2, <1>3, CatalogStep DEF Held
<1> QED BY <1>4 DEF FC!Remove

\* Connections and the file system together are a catalog of tables: a path
\* gets a whole table in one step, and keeps it until the file is removed or the
\* descriptor next to it is replaced.
THEOREM Refines ==
  ASSUME RepositoryCalls
  PROVE  Spec => ImplementsFileCatalog
<1>1. Init => FC!Init
  BY DEF Init, FC!Init, catalog, Verified
<1>2. IInv /\ IInv' /\ [Next]_vars => [FC!Next]_catalog
  <2> SUFFICES ASSUME IInv, IInv', [Next]_vars
               PROVE  FC!Next \/ catalog' = catalog
    OBVIOUS
  <2>1. CASE UNCHANGED vars
    BY <2>1, CatalogUntouched DEF vars
  <2>2. ASSUME NEW c \in Conns,
               \/ \E t \in Tables : Load(c, t)
               \/ Reset(c) \/ InlineFooter(c) \/ Spell(c)
               \/ \E f \in Files : StartToFls(c, f)
        PROVE  catalog' = catalog
    <3>1. UNCHANGED <<disk, external, described>>
      BY <2>2 DEF Load, Reset, InlineFooter, Spell, StartToFls
    <3> QED BY <3>1, CatalogUntouched
  <2>3. ASSUME NEW c \in Conns, WriteHeader(c) \/ AppendRowgroup(c) \/ WriteDescriptor(c)
        PROVE  FC!Next \/ catalog' = catalog
    BY <2>3, WritesUnseen DEF FC!Next
  <2>4. ASSUME NEW c \in Conns, WriteFooter(c) PROVE FC!Next \/ catalog' = catalog
    BY <2>4, FooterIsPublish DEF FC!Next
  <2>5. ASSUME NEW c \in Conns, Throw(c) \/ Crash(c) PROVE FC!Next \/ catalog' = catalog
    BY <2>5, StopsUnseen DEF FC!Next
  <2>6. ASSUME NEW f \in Files, RemoveFile(f) PROVE FC!Next
    BY <2>6, RemoveIsRemove DEF FC!Next
  <2>7. ASSUME (\E f \in Files : ReadFls(f)) \/ MaterializeRowgroup \/ CloseReader
        PROVE  catalog' = catalog
    <3>1. UNCHANGED <<disk, external, described>>
      BY <2>7 DEF ReadFls, MaterializeRowgroup, CloseReader
    <3> QED BY <3>1, CatalogUntouched
  <2>8. CASE Next
    BY <2>2, <2>3, <2>4, <2>5, <2>6, <2>7, <2>8 DEF Next
  <2> QED BY <2>1, <2>8
<1> QED BY <1>1, <1>2, InitIInv, NextIInv, PTL DEF Spec, ImplementsFileCatalog, FC!Spec
=============================================================================
