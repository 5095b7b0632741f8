------------------------ MODULE CatalogueUpdateProofs ------------------------
(***************************************************************************)
(* Proofs about CatalogueUpdate and the import it runs, for every set of    *)
(* catalogues, boxes and rows, and any number of failures and crashes.      *)
(*                                                                          *)
(* ImportInv follows the import through its statements: which tables are    *)
(* empty, half filled or complete at each of them.  JavaInv says what the   *)
(* activity's flags and the saved version tell about the database between   *)
(* two imports.                                                             *)
(***************************************************************************)
EXTENDS CatalogueUpdate, TLAPS

\* The transaction that fills each table.
PartOf == [ZSONGTYPES |-> "types", ZLANGUAGES |-> "languages",
           ZSINGERS |-> "artists", ZMUSICIANS |-> "artists",
           ZSONGS |-> "songs", ZSONGSINGERS |-> "songs", ZSONGMUSICIANS |-> "songs"]

\* The statements before which each table is empty, and those before which it
\* is complete.
Emptied ==
    LET artists == {"beginArtists"}
        songs == {"delSingers", "delMusicians", "beginArtists", "artists", "beginSongs"}
    IN [ZSONGTYPES |-> {"beginTypes"}, ZLANGUAGES |-> {"beginLanguages"},
        ZSINGERS |-> {"delMusicians"} \cup artists, ZMUSICIANS |-> artists,
        ZSONGS |-> {"delSongSingers", "delSongMusicians"} \cup songs,
        ZSONGSINGERS |-> {"delSongMusicians"} \cup songs, ZSONGMUSICIANS |-> songs]
Filled ==
    LET artists == {"beginSongs", "songs"}
        languages == {"delSongs", "delSongSingers", "delSongMusicians", "delSingers",
                      "delMusicians", "beginArtists", "artists"} \cup artists
    IN [ZSONGTYPES |-> {"delLanguages", "beginLanguages", "languages"} \cup languages,
        ZLANGUAGES |-> languages, ZSINGERS |-> artists, ZMUSICIANS |-> artists,
        ZSONGS |-> {}, ZSONGSINGERS |-> {}, ZSONGMUSICIANS |-> {}]

\* The statements before which the old songs are still there.
Early == {"idle", "delTypes", "beginTypes", "types", "delLanguages",
          "beginLanguages", "languages", "delSongs"}

\* Row r is among the first n of part p of catalogue v.
Written(v, p, n, r) == \E i \in 1..n : Toc[v][p][i] = r

\* SongsAreWhole of any contents.
Whole(c) ==
    \A r \in Row : r.table = "ZSONGS" /\ c[r] # NoVersion =>
        \A q \in Row : q.table \in SongTables \cup ArtistTables =>
            c[q] = Catalogue(c[r])[q]

TxInv ==
    /\ step = "idle" => ~inTx
    /\ ~inTx => work = db
    /\ taint # "new" => (inTx <=> step \in Parts)
    /\ taint # "new" /\ step \in Parts => row <= Len(Toc[job][step]) + 1
    /\ result # "none" => step = "idle"

Progress(r) ==
    /\ step \in Emptied[r.table] => work[r] = NoVersion
    /\ step = PartOf[r.table] =>
          /\ db[r] = NoVersion
          /\ work[r] = IF Written(job, step, row - 1, r) THEN job ELSE NoVersion
    /\ step \in Filled[r.table] => work[r] = Catalogue(job)[r]
    /\ step # PartOf[r.table] => db[r] = work[r]

ProgressInv == taint # "new" /\ step # "idle" => \A r \in Row : Progress(r)

WholeInv == taint = "none" /\ step \in Early => Whole(db)

ImportInv == ImportTypeOK /\ TxInv /\ ProgressInv /\ WholeInv /\ SuccessIsWhole

PhaseInv ==
    /\ phase \notin {"import", "asset"} => step = "idle" /\ result = "none"
    /\ phase \in {"download", "import"} =>
          /\ conn \in Box /\ ~skipDownload
          /\ lastUpdate = BoxVersion[conn] /\ lastUpdate # saved
    /\ phase = "import" => job = lastUpdate
    /\ phase = "import" /\ ~usable =>
          step = "idle" /\ (result = "false" \/ restore # "none")
    /\ phase = "asset" => job = Package

\* A restore runs alone, and is cut short until its version is saved.
RestoreInv ==
    /\ restore # "none" =>
          /\ step = "idle" /\ result = "none" /\ phase \in {"import", "first", "on"}
          /\ blame = {"restoreCut"}
    /\ restore = "copied" => db = Catalogue(Package)
    /\ torn => ~inTx

\* The database is not being written.
Settled == \/ phase \notin {"import", "asset"}
           \/ phase = "import" /\ ~usable

SavedInv ==
    /\ Settled /\ blame = {} => db = Catalogue(saved)
    /\ phase \notin {"import", "asset"} /\ blame = {"unsaved"} =>
          \/ db = Catalogue(job)
          \/ ~flagParseDB /\ job # saved

JavaInv == PhaseInv /\ RestoreInv /\ SavedInv

IInv == TypeOK /\ ImportInv /\ JavaInv
-----------------------------------------------------------------------------
(* The order of the statements.                                            *)

LEMMA PartOfTable ==
    \A t \in Tables :
        /\ PartOf[t] \in Parts
        /\ \A p \in Parts : t \in PartTables[p] <=> p = PartOf[t]
BY DEF PartOf, Parts, PartTables, Tables, SongTables, ArtistTables

\* A delete empties its table and leaves the others as they were.
LEMMA DeleteOrder ==
    ASSUME NEW s \in Deletes
    PROVE  /\ After[s] \in DOMAIN After /\ After[s] \notin Parts /\ s \notin Parts
           /\ s # "idle" /\ After[s] # "idle"
           /\ After[s] \in Early =>
                 s \in Early /\ DeletedTable[s] \notin SongTables \cup ArtistTables
           /\ \A t \in Tables :
                 /\ s # PartOf[t] /\ After[s] # PartOf[t]
                 /\ t = DeletedTable[s] => After[s] \notin Filled[t]
                 /\ t # DeletedTable[s] =>
                       /\ After[s] \in Emptied[t] => s \in Emptied[t]
                       /\ After[s] \in Filled[t] => s \in Filled[t]
<1>1. /\ After[s] \in DOMAIN After /\ After[s] \notin Parts /\ s \notin Parts
      /\ s # "idle" /\ After[s] # "idle"
      /\ After[s] \in Early =>
            s \in Early /\ DeletedTable[s] \notin SongTables \cup ArtistTables
  BY DEF Deletes, After, Parts, Early, DeletedTable, SongTables, ArtistTables
<1>2. ASSUME NEW t \in Tables
      PROVE  /\ s # PartOf[t] /\ After[s] # PartOf[t]
             /\ t = DeletedTable[s] => After[s] \notin Filled[t]
  BY DEF Deletes, After, DeletedTable, PartOf, Filled, Tables, SongTables, ArtistTables
<1>3. ASSUME NEW t \in Tables, t # DeletedTable[s]
      PROVE  /\ After[s] \in Emptied[t] => s \in Emptied[t]
             /\ After[s] \in Filled[t] => s \in Filled[t]
  BY <1>3 DEF Deletes, After, DeletedTable, Emptied, Filled, Tables, SongTables, ArtistTables
<1> QED BY <1>1, <1>2, <1>3

\* A begin starts the transaction of a part whose tables are empty.
LEMMA BeginOrder ==
    ASSUME NEW s \in Begins
    PROVE  /\ After[s] \in DOMAIN After /\ After[s] \in Parts /\ s \notin Parts
           /\ s # "idle" /\ After[s] # "idle"
           /\ After[s] \in Early => s \in Early
           /\ \A t \in Tables :
                 /\ s # PartOf[t]
                 /\ After[s] = PartOf[t] =>
                       s \in Emptied[t] /\ After[s] \notin Filled[t]
                 /\ After[s] # PartOf[t] =>
                       /\ After[s] \in Emptied[t] => s \in Emptied[t]
                       /\ After[s] \in Filled[t] => s \in Filled[t]
<1>1. /\ After[s] \in DOMAIN After /\ After[s] \in Parts /\ s \notin Parts
      /\ s # "idle" /\ After[s] # "idle"
      /\ After[s] \in Early => s \in Early
  BY DEF Begins, After, Parts, Early
<1>2. ASSUME NEW t \in Tables
      PROVE  /\ s # PartOf[t]
             /\ After[s] = PartOf[t] => s \in Emptied[t] /\ After[s] \notin Filled[t]
  BY DEF Begins, After, PartOf, Emptied, Filled, Tables, SongTables, ArtistTables
<1>3. ASSUME NEW t \in Tables, After[s] # PartOf[t]
      PROVE  /\ After[s] \in Emptied[t] => s \in Emptied[t]
             /\ After[s] \in Filled[t] => s \in Filled[t]
  BY <1>3 DEF Begins, After, PartOf, Emptied, Filled, Tables, SongTables, ArtistTables
<1> QED BY <1>1, <1>2, <1>3

\* A commit completes the tables of its part.
LEMMA CommitOrder ==
    ASSUME NEW s \in Parts
    PROVE  /\ After[s] \in DOMAIN After \cup {"idle"} /\ After[s] \notin Parts
           /\ s # "idle" /\ s \in DOMAIN After
           /\ After[s] = "idle" <=> s = "songs"
           /\ s # "songs" /\ After[s] \in Early => s \in Early
           /\ \A t \in Tables :
                 /\ After[s] # PartOf[t]
                 /\ s = PartOf[t] => s \notin Emptied[t] /\ s \notin Filled[t]
                 /\ After[s] \in Emptied[t] => s \in Emptied[t] /\ s # PartOf[t]
                 /\ After[s] \in Filled[t] => s \in Filled[t] \/ s = PartOf[t]
                 /\ s = "songs" => s \in Filled[t] \/ s = PartOf[t]
                 /\ s \notin Early => s \in Emptied["ZSONGS"] \cup {"songs"}
<1>1. /\ After[s] \in DOMAIN After \cup {"idle"} /\ After[s] \notin Parts
      /\ s # "idle" /\ s \in DOMAIN After
      /\ After[s] = "idle" <=> s = "songs"
      /\ s # "songs" /\ After[s] \in Early => s \in Early
      /\ s \notin Early => s \in Emptied["ZSONGS"] \cup {"songs"}
  BY DEF After, Parts, Early, Emptied
<1>2. ASSUME NEW t \in Tables
      PROVE  /\ After[s] # PartOf[t]
             /\ s = PartOf[t] => s \notin Emptied[t] /\ s \notin Filled[t]
             /\ s = "songs" => s \in Filled[t] \/ s = PartOf[t]
  BY DEF Parts, After, PartOf, Emptied, Filled, Tables, SongTables, ArtistTables
<1>3. ASSUME NEW t \in Tables
      PROVE  /\ After[s] \in Emptied[t] => s \in Emptied[t] /\ s # PartOf[t]
             /\ After[s] \in Filled[t] => s \in Filled[t] \/ s = PartOf[t]
  BY DEF Parts, After, PartOf, Emptied, Filled, Tables, SongTables, ArtistTables
<1> QED BY <1>1, <1>2, <1>3

\* Where the old songs are gone, none of them is in the database.
LEMMA LateOrder ==
    ASSUME NEW s \in DOMAIN After, s \notin Early
    PROVE  s \in Emptied["ZSONGS"] \cup {"songs"}
BY DEF After, Early, Emptied

LEMMA StartOrder ==
    /\ "delTypes" \in DOMAIN After /\ "delTypes" \notin Parts /\ "idle" \notin Parts
    /\ "delTypes" \in Early /\ "idle" \in Early /\ "delTypes" # "idle"
    /\ \A t \in Tables : /\ "delTypes" # PartOf[t]
                         /\ "delTypes" \notin Emptied[t] /\ "delTypes" \notin Filled[t]
BY DEF After, Parts, Early, PartOf, Emptied, Filled, Tables, SongTables, ArtistTables
-----------------------------------------------------------------------------
(* Catalogues.                                                             *)

LEMMA CatalogueType == ASSUME NEW v \in Version PROVE Catalogue(v) \in Contents
BY DEF Catalogue, Contents

\* The rows of a table come from one part.
LEMMA RowsOfPart ==
    ASSUME NEW v \in Version, NEW r \in Row
    PROVE  HasRow(v, r) <=>
               Written(v, PartOf[r.table], Len(Toc[v][PartOf[r.table]]), r)
<1>1. PartOf[r.table] \in Parts
  BY PartOfTable, SongImportAssumption
<1>2. ASSUME NEW p \in Parts, NEW i \in 1..Len(Toc[v][p]), Toc[v][p][i] = r
      PROVE  p = PartOf[r.table]
  BY <1>2, PartOfTable, SongImportAssumption
<1> QED BY <1>1, <1>2 DEF HasRow, Written

LEMMA CatalogueWhole == ASSUME NEW v \in Version PROVE Whole(Catalogue(v))
BY SongImportAssumption DEF Whole, Catalogue
-----------------------------------------------------------------------------
(* The statements of the import preserve ImportInv.                        *)

LEMMA DeleteInv ==
    ASSUME ImportInv, Delete
    PROVE  ImportInv'
<1> USE DEF ImportInv
<1>1. /\ step \in Deletes /\ step' = After[step]
      /\ work' = [r \in Row |-> IF r.table = DeletedTable[step]
                                THEN NoVersion ELSE work[r]]
      /\ db' = IF inTx THEN db ELSE work'
      /\ UNCHANGED <<inTx, row, job, result, taint, faults>>
  BY DEF Delete, Write
<1>2. ImportTypeOK'
  BY <1>1, DeleteOrder DEF ImportTypeOK, Contents
<1>3. TxInv'
  BY <1>1, DeleteOrder DEF TxInv, ImportTypeOK
<1>4. ProgressInv'
  <2> SUFFICES ASSUME taint # "new", NEW r \in Row
               PROVE  Progress(r)'
    BY <1>1, DeleteOrder DEF ProgressInv
  <2>1. r.table \in Tables /\ Progress(r) /\ ~inTx /\ work = db
    BY <1>1, DeleteOrder, SongImportAssumption DEF ProgressInv, TxInv
  <2>2. /\ db' = work' /\ work'[r] = IF r.table = DeletedTable[step]
                                     THEN NoVersion ELSE work[r]
        /\ Catalogue(job)' = Catalogue(job)
    BY <1>1, <2>1 DEF Catalogue, HasRow
  <2> QED BY <1>1, <2>1, <2>2, DeleteOrder DEF Progress
<1>5. WholeInv'
  <2> SUFFICES ASSUME taint = "none", After[step] \in Early
               PROVE  Whole(db')
    BY <1>1 DEF WholeInv, Whole, Catalogue, HasRow
  <2>1. /\ Whole(db) /\ ~inTx /\ work = db
        /\ DeletedTable[step] \notin SongTables \cup ArtistTables
    BY <1>1, DeleteOrder DEF WholeInv, TxInv
  <2>2. \A r \in Row : r.table \in SongTables \cup ArtistTables => db'[r] = db[r]
    BY <1>1, <2>1
  <2> QED BY <2>1, <2>2 DEF Whole, SongTables
<1>6. SuccessIsWhole'
  BY <1>1, DeleteOrder DEF SuccessIsWhole, TxInv
<1> QED BY <1>2, <1>3, <1>4, <1>5, <1>6

LEMMA BeginInv ==
    ASSUME ImportInv, Begin
    PROVE  ImportInv'
<1> USE DEF ImportInv
<1>1. /\ step \in Begins /\ step' = After[step] /\ inTx' = TRUE /\ row' = 1
      /\ UNCHANGED <<db, work, job, result, taint, faults>>
  BY DEF Begin
<1>2. ImportTypeOK'
  BY <1>1, BeginOrder DEF ImportTypeOK, Contents
<1>3. TxInv'
  <2>1. job \in Version /\ After[step] \in Parts
    BY <1>1, BeginOrder DEF ImportTypeOK
  <2>2. Len(Toc[job][After[step]]) \in Nat
    BY <2>1, SongImportAssumption
  <2> QED BY <1>1, <2>1, <2>2, BeginOrder DEF TxInv
<1>4. ProgressInv'
  <2> SUFFICES ASSUME taint # "new", NEW r \in Row
               PROVE  Progress(r)'
    BY <1>1, BeginOrder DEF ProgressInv
  <2>1. r.table \in Tables /\ Progress(r) /\ ~inTx /\ work = db
    BY <1>1, BeginOrder, SongImportAssumption DEF ProgressInv, TxInv
  <2>2. Catalogue(job)' = Catalogue(job) /\ ~Written(job, step, row - 1, r)'
    BY <1>1 DEF Catalogue, HasRow, Written
  <2> QED BY <1>1, <2>1, <2>2, BeginOrder DEF Progress
<1>5. WholeInv'
  BY <1>1, BeginOrder DEF WholeInv, Whole, Catalogue, HasRow
<1>6. SuccessIsWhole'
  BY <1>1, BeginOrder DEF SuccessIsWhole, TxInv
<1> QED BY <1>2, <1>3, <1>4, <1>5, <1>6

LEMMA LoadRowInv ==
    ASSUME ImportInv, LoadRow
    PROVE  ImportInv'
<1> USE DEF ImportInv
<1> DEFINE new == Toc[job][step][row]
<1>1. /\ step \in Parts /\ row <= Len(Toc[job][step]) /\ row' = row + 1
      /\ work' = [work EXCEPT ![new] = job]
      /\ db' = IF inTx THEN db ELSE work'
      /\ UNCHANGED <<inTx, step, job, result, taint, faults>>
  BY DEF LoadRow, Write
<1>a. /\ job \in Version /\ row \in Nat \ {0} /\ Len(Toc[job][step]) \in Nat
      /\ row \in 1..Len(Toc[job][step])
      /\ new \in Row /\ new.table \in PartTables[step]
  BY <1>1, SongImportAssumption DEF ImportTypeOK
<1>2. ImportTypeOK'
  BY <1>1, <1>a DEF ImportTypeOK, Contents
<1>3. TxInv'
  BY <1>1, <1>a, CommitOrder DEF TxInv
<1>4. ProgressInv'
  <2> SUFFICES ASSUME taint # "new", step # "idle", NEW r \in Row
               PROVE  Progress(r)'
    BY <1>1 DEF ProgressInv
  <2>1. r.table \in Tables /\ Progress(r) /\ inTx /\ db' = db
    BY <1>1, SongImportAssumption DEF ProgressInv, TxInv
  <2>2. Catalogue(job)' = Catalogue(job)
    BY <1>1 DEF Catalogue, HasRow
  <2>3. work'[r] = IF r = new THEN job ELSE work[r]
    BY <1>1, <1>a DEF ImportTypeOK, Contents
  <2>4. Written(job, step, row - 1, r)' <=> Written(job, step, row - 1, r) \/ r = new
    BY <1>1, <1>a DEF Written
  <2>5. r = new => step = PartOf[r.table]
    BY <1>1, <1>a, <2>1, PartOfTable
  <2> QED BY <1>1, <2>1, <2>2, <2>3, <2>4, <2>5, CommitOrder DEF Progress
<1>5. WholeInv'
  BY <1>1, <1>a DEF WholeInv, Whole, Catalogue, HasRow, TxInv
<1>6. SuccessIsWhole'
  BY <1>1, CommitOrder DEF SuccessIsWhole, TxInv
<1> QED BY <1>2, <1>3, <1>4, <1>5, <1>6

\* While the old songs are gone and no transaction commits, the database has
\* no song, so it is whole whatever ends the import.
LEMMA NoSongsLate ==
    ASSUME ImportInv, taint = "none"
    PROVE  Whole(db)
<1> USE DEF ImportInv
<1>1. CASE step \in Early
  BY <1>1 DEF WholeInv
<1>2. CASE step \notin Early
  <2>1. step \in Emptied["ZSONGS"] \cup {"songs"} /\ step # "idle"
    BY <1>2, LateOrder, StartOrder DEF ImportTypeOK
  <2>2. PartOf["ZSONGS"] = "songs" /\ "songs" \notin Emptied["ZSONGS"]
    BY DEF PartOf, Emptied
  <2>3. \A r \in Row : r.table = "ZSONGS" => db[r] = NoVersion
    BY <2>1, <2>2 DEF ProgressInv, Progress
  <2> QED BY <2>3 DEF Whole
<1> QED BY <1>1, <1>2

\* After the last row of a part its tables are those of the catalogue.
LEMMA CommitInv ==
    ASSUME ImportInv, Commit
    PROVE  ImportInv'
<1> USE DEF ImportInv
<1>1. /\ step \in Parts /\ row > Len(Toc[job][step])
      /\ step' = After[step] /\ db' = work /\ inTx' = FALSE
      /\ result' = IF step = "songs" THEN "true" ELSE result
      /\ taint' = IF step = "songs" /\ taint = "old" THEN "none" ELSE taint
      /\ UNCHANGED <<work, row, job, faults>>
  BY DEF Commit, Proceed
<1>2. /\ job \in Version /\ row \in Nat \ {0} /\ Len(Toc[job][step]) \in Nat
  BY <1>1, SongImportAssumption DEF ImportTypeOK
<1>3. ImportTypeOK'
  BY <1>1, CommitOrder DEF ImportTypeOK, Contents
<1>4. TxInv'
  BY <1>1, CommitOrder DEF TxInv
<1>5. Catalogue(job)' = Catalogue(job)
  BY <1>1 DEF Catalogue, HasRow
<1>6. ASSUME taint # "new", NEW r \in Row
      PROVE  /\ step \in Emptied[r.table] => work[r] = NoVersion
             /\ step \in Filled[r.table] \/ step = PartOf[r.table] =>
                   work[r] = Catalogue(job)[r]
  <2>1. r.table \in Tables /\ Progress(r)
    BY <1>1, <1>6, CommitOrder, SongImportAssumption DEF ProgressInv
  <2>2. row - 1 = Len(Toc[job][step])
    BY <1>1, <1>2, <1>6 DEF TxInv
  <2>3. CASE step = PartOf[r.table]
    <3>1. Written(job, step, row - 1, r) <=> HasRow(job, r)
      BY <1>2, <2>2, <2>3, RowsOfPart
    <3> QED BY <1>1, <2>1, <2>3, <3>1, CommitOrder DEF Progress, Catalogue
  <2>4. CASE step # PartOf[r.table]
    BY <2>1, <2>4 DEF Progress
  <2> QED BY <2>3, <2>4
<1>7. ProgressInv'
  <2> SUFFICES ASSUME taint # "new", After[step] # "idle", NEW r \in Row
               PROVE  Progress(r)'
    BY <1>1 DEF ProgressInv
  <2>1. r.table \in Tables
    BY SongImportAssumption
  <2> QED BY <1>1, <1>5, <1>6, <2>1, CommitOrder DEF Progress
<1>8. step = "songs" /\ taint # "new" => work = Catalogue(job)
  <2> SUFFICES ASSUME step = "songs", taint # "new"
               PROVE  work = Catalogue(job)
    OBVIOUS
  <2>1. \A r \in Row : work[r] = Catalogue(job)[r]
    BY <1>1, <1>6, CommitOrder, SongImportAssumption
  <2> QED BY <1>2, <2>1, CatalogueType DEF ImportTypeOK, Contents
<1>9. SuccessIsWhole'
  BY <1>1, <1>5, <1>8 DEF SuccessIsWhole, TxInv
<1>10. WholeInv'
  <2> SUFFICES ASSUME taint' = "none", After[step] \in Early
               PROVE  Whole(work)
    BY <1>1 DEF WholeInv, Whole, Catalogue, HasRow
  <2>1. CASE step = "songs"
    BY <1>1, <1>2, <1>8, <2>1, CatalogueWhole
  <2>2. CASE step # "songs"
    <3>1. taint = "none" /\ step \in Early /\ Whole(db)
      BY <1>1, <2>2, CommitOrder DEF WholeInv
    <3>2. ASSUME NEW r \in Row, r.table \in SongTables \cup ArtistTables
          PROVE  db[r] = work[r]
      <4>1. Progress(r) /\ step # PartOf[r.table]
        BY <1>1, <3>1, <3>2, CommitOrder
           DEF ProgressInv, PartOf, SongTables, ArtistTables, Early
      <4> QED BY <4>1 DEF Progress
    <3> QED BY <3>1, <3>2 DEF Whole, SongTables
  <2> QED BY <2>1, <2>2
<1> QED BY <1>3, <1>4, <1>7, <1>9, <1>10

LEMMA SwallowedFaultInv ==
    ASSUME ImportInv, SwallowedFault
    PROVE  ImportInv'
<1> USE DEF ImportInv
<1>1. /\ step \in Deletes \cup Begins \cup Parts
      /\ faults < MaxFaults /\ faults' = faults + 1
      /\ taint' = "new" /\ row' = 1 /\ step' = After[step] /\ job' = job
      /\ result' = IF step = "songs" THEN "true" ELSE result
      /\ \/ inTx' = FALSE /\ work' = db /\ db' = db
         \/ step # "songs" /\ UNCHANGED <<db, work, inTx>>
  BY DEF SwallowedFault, CloseTransaction, Proceed
<1>2. /\ After[step] \in DOMAIN After \cup {"idle"}
      /\ After[step] = "idle" <=> step = "songs"
      /\ step # "idle"
  BY <1>1, DeleteOrder, BeginOrder, CommitOrder DEF Parts
<1>f. faults' \in 0..MaxFaults
  BY <1>1, SongImportAssumption DEF ImportTypeOK
<1>c. db' \in Contents /\ work' \in Contents /\ inTx' \in BOOLEAN
  BY <1>1 DEF ImportTypeOK
<1>3. ImportTypeOK'
  BY <1>1, <1>2, <1>c, <1>f DEF ImportTypeOK, Contents
<1>4. TxInv'
  BY <1>1, <1>2 DEF TxInv
<1>5. ProgressInv' /\ WholeInv' /\ SuccessIsWhole'
  BY <1>1 DEF ProgressInv, WholeInv, SuccessIsWhole
<1> QED BY <1>3, <1>4, <1>5

LEMMA LoadFaultInv ==
    ASSUME ImportInv, LoadFault
    PROVE  ImportInv'
<1> USE DEF ImportInv
<1>1. /\ faults < MaxFaults /\ faults' = faults + 1
      /\ inTx' = FALSE /\ work' = db /\ db' = db
      /\ step' = "idle" /\ result' = "false"
      /\ UNCHANGED <<row, job, taint>>
  BY DEF LoadFault, CloseTransaction
<1>f. faults' \in 0..MaxFaults
  BY <1>1, SongImportAssumption DEF ImportTypeOK
<1>2. ImportTypeOK'
  BY <1>1, <1>f DEF ImportTypeOK, Contents
<1>3. TxInv' /\ ProgressInv' /\ SuccessIsWhole'
  BY <1>1, StartOrder DEF TxInv, ProgressInv, SuccessIsWhole
<1>4. WholeInv'
  BY <1>1, NoSongsLate DEF WholeInv, Whole, Catalogue, HasRow
<1> QED BY <1>2, <1>3, <1>4

LEMMA ImportStepInv ==
    ASSUME ImportInv, ImportStep
    PROVE  ImportInv'
BY DeleteInv, BeginInv, LoadRowInv, CommitInv, SwallowedFaultInv, LoadFaultInv
   DEF ImportStep
-----------------------------------------------------------------------------
(* What the activity does to the import's variables preserves ImportInv.   *)

LEMMA ImportInvUnchanged ==
    ASSUME ImportInv, UNCHANGED importVars
    PROVE  ImportInv'
BY DEF ImportInv, importVars, ImportTypeOK, TxInv, ProgressInv, Progress, WholeInv,
       Whole, SuccessIsWhole, Catalogue, HasRow, Written, Contents

LEMMA ImportInvStart ==
    ASSUME ImportInv, NEW v \in Version, NEW readable \in BOOLEAN,
           Import(v, readable), faults' \in 0..MaxFaults
    PROVE  ImportInv'
<1> USE DEF ImportInv
<1>1. /\ step = "idle" /\ job' = v /\ row' = 1
      /\ taint' = IF taint = "none" THEN "none" ELSE "old"
      /\ \/ step' = "delTypes" /\ result' = "none"
         \/ step' = "idle" /\ result' = "false"
      /\ UNCHANGED <<db, work, inTx>>
  BY DEF Import
<1>2. ImportTypeOK'
  BY <1>1, StartOrder DEF ImportTypeOK, Contents
<1>3. TxInv' /\ SuccessIsWhole'
  BY <1>1, StartOrder DEF TxInv, SuccessIsWhole
<1>4. ProgressInv'
  BY <1>1, StartOrder, SongImportAssumption DEF ProgressInv, Progress, TxInv
<1>5. WholeInv'
  BY <1>1, StartOrder DEF WholeInv, Whole, Catalogue, HasRow
<1> QED BY <1>2, <1>3, <1>4, <1>5

LEMMA ImportInvRead ==
    ASSUME ImportInv, UNCHANGED <<db, work, inTx, step, row, job, taint>>,
           result' = "none", faults' \in 0..MaxFaults
    PROVE  ImportInv'
BY DEF ImportInv, ImportTypeOK, TxInv, ProgressInv, Progress, WholeInv,
       Whole, SuccessIsWhole, Catalogue, HasRow, Written, Contents

LEMMA ImportInvReplaced ==
    ASSUME ImportInv, step = "idle", result' = "none", taint' \in {"none", taint},
           UNCHANGED <<inTx, step, row, job>>, faults' \in 0..MaxFaults,
           NEW c \in Contents, Whole(c), db' = c, work' = c
    PROVE  ImportInv'
<1> USE DEF ImportInv
<1>1. ImportTypeOK'
  BY DEF ImportTypeOK, Contents
<1>2. TxInv' /\ ProgressInv' /\ SuccessIsWhole'
  BY StartOrder DEF TxInv, ProgressInv, SuccessIsWhole
<1>3. WholeInv'
  BY DEF WholeInv, Whole, Catalogue, HasRow
<1> QED BY <1>1, <1>2, <1>3

\* An emptied file has no song that could lack anything.
LEMMA NoRowsWhole == NoRows \in Contents /\ Whole(NoRows)
  BY DEF NoRows, Contents, Whole

LEMMA ImportInvCrash ==
    ASSUME ImportInv, CloseTransaction, step' = "idle", result' = "none",
           UNCHANGED <<row, job, taint, faults>>
    PROVE  ImportInv'
<1> USE DEF ImportInv
<1>1. inTx' = FALSE /\ work' = db /\ db' = db
  BY DEF CloseTransaction
<1>2. ImportTypeOK'
  BY <1>1 DEF ImportTypeOK, Contents
<1>3. TxInv' /\ ProgressInv' /\ SuccessIsWhole'
  BY <1>1, StartOrder DEF TxInv, ProgressInv, SuccessIsWhole
<1>4. WholeInv'
  BY <1>1, NoSongsLate DEF WholeInv, Whole, Catalogue, HasRow
<1> QED BY <1>2, <1>3, <1>4

LEMMA ImportInvNext ==
    ASSUME IInv, [Next]_vars
    PROVE  ImportInv'
<1> USE DEF IInv
<1>1. ASSUME NEW b \in Box, Authenticate(b) PROVE ImportInv'
  BY <1>1, ImportInvUnchanged DEF Authenticate
<1>2. ASSUME NEW ok \in BOOLEAN, Downloaded(ok) PROVE ImportInv'
  <2>1. /\ phase = "download" /\ Import(BoxVersion[conn], ok)
        /\ faults' = IF ok THEN faults ELSE faults + 1
        /\ ok \/ faults < MaxFaults
    BY <1>2 DEF Downloaded
  <2>2. BoxVersion[conn] \in Version
    BY <2>1, CatalogueUpdateAssumption DEF JavaInv, PhaseInv
  <2>3. faults' \in 0..MaxFaults
    BY <2>1, SongImportAssumption DEF ImportInv, ImportTypeOK
  <2> QED BY <2>1, <2>2, <2>3, ImportInvStart
<1>3. CASE DownloadFailed
  BY <1>3, ImportInvUnchanged DEF DownloadFailed
<1>4. CASE DialogAnswered
  BY <1>4, ImportInvUnchanged DEF DialogAnswered
<1>5. CASE ImportSucceeded
  <2>1. faults' \in 0..MaxFaults
    BY <1>5, SongImportAssumption DEF ImportSucceeded, ImportInv, ImportTypeOK
  <2> QED BY <1>5, <2>1, ImportInvRead DEF ImportSucceeded
<1>6. CASE ImportFailed
  <2>1. /\ step = "idle" /\ result' = "none" /\ faults' \in 0..MaxFaults
        /\ UNCHANGED <<inTx, step, row, job, faults>>
    BY <1>6 DEF ImportFailed, ImportInv, TxInv, ImportTypeOK
  <2>2. CASE RestoreBegins
    BY <2>1, <2>2, ImportInvReplaced, NoRowsWhole DEF RestoreBegins
  <2>3. CASE UNCHANGED <<db, work, taint>>
    BY <2>1, <2>3, ImportInvRead
  <2> QED BY <1>6, <2>2, <2>3 DEF ImportFailed
<1>7. CASE RevertWindowEnds
  BY <1>7, ImportInvUnchanged DEF RevertWindowEnds
<1>8. CASE FirstStatus
  BY <1>8, ImportInvUnchanged DEF FirstStatus
<1>9. CASE Disconnect
  BY <1>9, ImportInvUnchanged DEF Disconnect
<1>10. CASE UserReset
  <2>1. /\ RestoreBegins /\ step = "idle" /\ result' = "none" /\ faults' \in 0..MaxFaults
        /\ UNCHANGED <<inTx, step, row, job, faults>>
    BY <1>10 DEF UserReset, JavaInv, PhaseInv, ImportInv, ImportTypeOK
  <2> QED BY <2>1, ImportInvReplaced, NoRowsWhole DEF RestoreBegins
<1>11. CASE ParseFromAsset
  <2>1. Import(Package, TRUE) /\ faults' \in 0..MaxFaults /\ Package \in Version
    BY <1>11, CatalogueUpdateAssumption DEF ParseFromAsset, ImportInv, ImportTypeOK
  <2> QED BY <2>1, ImportInvStart
<1>12. CASE AssetParsed
  <2>1. faults' \in 0..MaxFaults
    BY <1>12 DEF AssetParsed, ImportInv, ImportTypeOK
  <2> QED BY <1>12, <2>1, ImportInvRead DEF AssetParsed
<1>13. CASE Crash
  BY <1>13, ImportInvCrash DEF Crash, ProcessEnds
<1>14. CASE Importing
  BY <1>14, ImportStepInv DEF Importing
<1>15. CASE UNCHANGED vars
  BY <1>15, ImportInvUnchanged DEF vars
<1>16. CASE RestoreCopied
  <2>1. Catalogue(Package) \in Contents /\ Whole(Catalogue(Package))
    BY CatalogueUpdateAssumption, CatalogueType, CatalogueWhole
  <2>2. /\ step = "idle" /\ result' = "none" /\ faults' \in 0..MaxFaults
        /\ UNCHANGED <<inTx, step, row, job, taint>>
        /\ db' = Catalogue(Package) /\ work' = Catalogue(Package)
    BY <1>16 DEF RestoreCopied, JavaInv, RestoreInv, ImportInv, ImportTypeOK
  <2> QED BY <2>1, <2>2, ImportInvReplaced
<1>17. CASE RestoreSaved
  BY <1>17, ImportInvUnchanged DEF RestoreSaved, RestoreReturns, importVars
<1>18. CASE RestoreThrows
  <2>1. /\ UNCHANGED <<db, work, inTx, step, row, job, taint>> /\ result' = "none"
        /\ faults' \in 0..MaxFaults
    BY <1>18, SongImportAssumption
       DEF RestoreThrows, RestoreReturns, JavaInv, RestoreInv, ImportInv, ImportTypeOK
  <2> QED BY <2>1, ImportInvRead
<1>19. CASE TornImport
  <2>1. CASE ProcessEnds
    BY <2>1, ImportInvCrash DEF ProcessEnds
  <2>2. CASE /\ step' = "idle" /\ result' = "false"
             /\ UNCHANGED <<db, work, inTx, row, job, taint, faults, javaVars>>
    <3>1. ~inTx
      BY <1>19 DEF TornImport, JavaInv, RestoreInv
    <3>2. ImportTypeOK'
      BY <2>2 DEF ImportInv, ImportTypeOK
    <3>3. TxInv' /\ ProgressInv' /\ SuccessIsWhole'
      BY <2>2, <3>1, StartOrder DEF ImportInv, TxInv, ProgressInv, SuccessIsWhole
    <3>4. WholeInv'
      BY <2>2, NoSongsLate DEF WholeInv, Whole, Catalogue, HasRow
    <3> QED BY <3>2, <3>3, <3>4 DEF ImportInv
  <2> QED BY <1>19, <2>1, <2>2 DEF TornImport
<1> QED BY <1>1, <1>2, <1>3, <1>4, <1>5, <1>6, <1>7, <1>8, <1>9, <1>10, <1>11,
           <1>12, <1>13, <1>14, <1>15, <1>16, <1>17, <1>18, <1>19
        DEF Next, Disturbance
-----------------------------------------------------------------------------
(* The flags and the saved version.                                        *)

\* A statement of the import runs only in an import.
LEMMA ImportingRuns ==
    ASSUME Importing
    PROVE  step # "idle" /\ job' = job /\ ~torn /\ UNCHANGED javaVars
  BY DeleteOrder, BeginOrder, CommitOrder
     DEF Importing, ImportStep, Delete, Begin, LoadRow, Commit, SwallowedFault, LoadFault

LEMMA PhaseInvNext ==
    ASSUME IInv, [Next]_vars
    PROVE  PhaseInv'
<1> USE DEF IInv, JavaInv, versionVars, restoreVars, counters
<1>1. ASSUME NEW b \in Box, Authenticate(b) PROVE PhaseInv'
  BY <1>1 DEF Authenticate, PhaseInv, NeedsUpdate, importVars
<1>2. ASSUME NEW ok \in BOOLEAN, Downloaded(ok) PROVE PhaseInv'
  BY <1>2 DEF Downloaded, Import, PhaseInv
<1>3. CASE DownloadFailed
  BY <1>3 DEF DownloadFailed, PhaseInv, importVars
<1>4. CASE DialogAnswered
  BY <1>4 DEF DialogAnswered, PhaseInv, importVars
<1>5. CASE ImportSucceeded
  BY <1>5 DEF ImportSucceeded, PhaseInv, ImportInv, TxInv
<1>6. CASE ImportFailed
  BY <1>6 DEF ImportFailed, RestoreBegins, PhaseInv, ImportInv, TxInv
<1>7. CASE RevertWindowEnds
  BY <1>7 DEF RevertWindowEnds, PhaseInv, importVars
<1>8. CASE FirstStatus
  BY <1>8 DEF FirstStatus, PhaseInv, importVars
<1>9. CASE Disconnect
  BY <1>9 DEF Disconnect, PhaseInv, importVars
<1>10. CASE UserReset
  BY <1>10 DEF UserReset, RestoreBegins, PhaseInv
<1>11. CASE ParseFromAsset
  BY <1>11 DEF ParseFromAsset, Import, PhaseInv
<1>12. CASE AssetParsed
  BY <1>12 DEF AssetParsed, PhaseInv, ImportInv, TxInv
<1>13. CASE Crash
  BY <1>13 DEF Crash, ProcessEnds, PhaseInv
<1>14. CASE Importing
  BY <1>14, ImportingRuns DEF PhaseInv, javaVars
<1>15. CASE UNCHANGED vars
  BY <1>15 DEF vars, importVars, javaVars, PhaseInv
<1>16. CASE RestoreCopied
  BY <1>16 DEF RestoreCopied, PhaseInv, RestoreInv
<1>17. CASE RestoreSaved \/ RestoreThrows
  BY <1>17 DEF RestoreSaved, RestoreThrows, RestoreReturns, PhaseInv, RestoreInv
<1>18. CASE TornImport
  <2>1. CASE ProcessEnds
    BY <2>1 DEF ProcessEnds, PhaseInv
  <2>2. CASE step' = "idle" /\ result' = "false" /\ UNCHANGED <<job, javaVars>>
    BY <1>18, <2>2 DEF TornImport, PhaseInv, javaVars
  <2> QED BY <1>18, <2>1, <2>2 DEF TornImport
<1> QED BY <1>1, <1>2, <1>3, <1>4, <1>5, <1>6, <1>7, <1>8, <1>9, <1>10, <1>11,
           <1>12, <1>13, <1>14, <1>15, <1>16, <1>17, <1>18 DEF Next, Disturbance

LEMMA RestoreInvNext ==
    ASSUME IInv, [Next]_vars
    PROVE  RestoreInv'
<1> USE DEF IInv, JavaInv, versionVars, restoreVars, counters, RestoreInv
<1>1. ASSUME NEW b \in Box, Authenticate(b) PROVE RestoreInv'
  BY <1>1 DEF Authenticate, importVars
<1>2. ASSUME NEW ok \in BOOLEAN, Downloaded(ok) PROVE RestoreInv'
  BY <1>2 DEF Downloaded, Import
<1>3. CASE DownloadFailed \/ DialogAnswered
  BY <1>3 DEF DownloadFailed, DialogAnswered, importVars
<1>4. CASE ImportSucceeded
  BY <1>4 DEF ImportSucceeded
<1>5. CASE ImportFailed
  BY <1>5 DEF ImportFailed, RestoreBegins, ImportInv, TxInv
<1>6. CASE RevertWindowEnds
  BY <1>6 DEF RevertWindowEnds, importVars
<1>7. CASE FirstStatus \/ Disconnect
  BY <1>7 DEF FirstStatus, Disconnect, importVars
<1>8. CASE UserReset
  BY <1>8 DEF UserReset, RestoreBegins, PhaseInv, ImportInv, TxInv
<1>9. CASE ParseFromAsset \/ AssetParsed
  BY <1>9 DEF ParseFromAsset, AssetParsed, Import
<1>10. CASE Crash \/ TornImport
  BY <1>10 DEF Crash, TornImport, ProcessEnds, CloseTransaction, javaVars
<1>11. CASE Importing
  BY <1>11, ImportingRuns DEF javaVars
<1>12. CASE RestoreCopied
  BY <1>12 DEF RestoreCopied
<1>13. CASE RestoreSaved \/ RestoreThrows
  BY <1>13 DEF RestoreSaved, RestoreThrows, RestoreReturns
<1>14. CASE UNCHANGED vars
  BY <1>14 DEF vars, importVars, javaVars
<1> QED BY <1>1, <1>2, <1>3, <1>4, <1>5, <1>6, <1>7, <1>8, <1>9, <1>10, <1>11,
           <1>12, <1>13, <1>14 DEF Next, Disturbance

LEMMA SavedInvNext ==
    ASSUME IInv, [Next]_vars
    PROVE  SavedInv'
<1> USE DEF IInv, JavaInv, versionVars, restoreVars, counters
<1>1. ASSUME NEW b \in Box, Authenticate(b) PROVE SavedInv'
  BY <1>1 DEF Authenticate, SavedInv, Settled, importVars
<1>2. ASSUME NEW ok \in BOOLEAN, Downloaded(ok) PROVE SavedInv'
  BY <1>2 DEF Downloaded, Import, SavedInv, Settled
<1>3. CASE DownloadFailed
  BY <1>3 DEF DownloadFailed, SavedInv, Settled, importVars
<1>4. CASE DialogAnswered
  BY <1>4 DEF DialogAnswered, SavedInv, Settled, importVars
<1>5. CASE ImportSucceeded
  <2>1. lastUpdate = job /\ ~skipDownload
    BY <1>5 DEF ImportSucceeded, PhaseInv
  <2>2. taint # "new" => db = Catalogue(job)
    BY <1>5 DEF ImportSucceeded, ImportInv, SuccessIsWhole
  <2> QED BY <1>5, <2>1, <2>2 DEF ImportSucceeded, SaveVersions, SavedInv, Settled
<1>6. CASE ImportFailed
  <2>1. job # saved /\ flagParseDB' = FALSE /\ job' = job
    BY <1>6 DEF ImportFailed, PhaseInv
  <2>2. CASE RestoreBegins
    BY <2>2 DEF RestoreBegins, SavedInv, Settled
  <2>3. CASE /\ phase' = "first"
             /\ blame' = IF usable THEN blame \cup {"notReverted"} ELSE blame
             /\ UNCHANGED <<db, work, taint, restoreVars>>
    BY <1>6, <2>1, <2>3 DEF ImportFailed, SavedInv, Settled
  <2> QED BY <1>6, <2>2, <2>3 DEF ImportFailed
<1>7. CASE RevertWindowEnds
  BY <1>7 DEF RevertWindowEnds, SavedInv, Settled, importVars
<1>8. CASE FirstStatus
  <2>1. /\ phase = "first" /\ UNCHANGED <<db, job>> /\ flagParseDB' = FALSE
        /\ ~flagParseDB => saved' = saved
        /\ blame' = IF "unsaved" \in blame /\ saved' = job THEN blame \ {"unsaved"}
                    ELSE IF saved' # saved THEN blame \cup {"overwritten"} ELSE blame
    BY <1>8 DEF FirstStatus, importVars
  <2>2. CASE "unsaved" \in blame /\ saved' = job
    BY <2>1, <2>2 DEF SavedInv, Settled
  <2>3. CASE ~("unsaved" \in blame /\ saved' = job) /\ saved' # saved
    BY <2>1, <2>3 DEF SavedInv, Settled
  <2>4. CASE ~("unsaved" \in blame /\ saved' = job) /\ saved' = saved
    BY <2>1, <2>4 DEF SavedInv, Settled
  <2> QED BY <2>2, <2>3, <2>4
<1>9. CASE Disconnect
  BY <1>9 DEF Disconnect, SavedInv, Settled, importVars
<1>10. CASE UserReset
  BY <1>10 DEF UserReset, RestoreBegins, SavedInv, Settled
<1>11. CASE ParseFromAsset
  BY <1>11 DEF ParseFromAsset, SavedInv, Settled
<1>12. CASE AssetParsed
  BY <1>12 DEF AssetParsed, PhaseInv, ImportInv, ImportTypeOK, SuccessIsWhole,
               SavedInv, Settled
<1>13. ASSUME ProcessEnds PROVE SavedInv'
  <2>1. /\ UNCHANGED <<db, job, saved>> /\ flagParseDB' = FALSE
        /\ blame' = IF phase = "asset" THEN blame \cup {"asset"}
                    ELSE IF phase = "import" /\ usable THEN blame \cup {"crash"}
                    ELSE blame
    BY <1>13 DEF ProcessEnds, CloseTransaction
  <2>2. phase = "import" => job # saved
    BY DEF PhaseInv
  <2> QED BY <2>1, <2>2 DEF SavedInv, Settled
<1>14. CASE Importing
  <2>1. ~Settled /\ phase \in {"import", "asset"} /\ UNCHANGED javaVars
    BY <1>14, ImportingRuns DEF Settled, PhaseInv
  <2> QED BY <2>1 DEF SavedInv, Settled, javaVars
<1>15. CASE UNCHANGED vars
  BY <1>15 DEF vars, importVars, javaVars, SavedInv, Settled
<1>16. CASE RestoreCopied
  BY <1>16 DEF RestoreCopied, RestoreInv, SavedInv
<1>17. CASE RestoreSaved
  BY <1>17 DEF RestoreSaved, RestoreReturns, RestoreInv, SavedInv
<1>18. CASE RestoreThrows
  BY <1>18 DEF RestoreThrows, RestoreReturns, RestoreInv, SavedInv
<1>19. CASE TornImport
  <2>1. CASE step' = "idle" /\ UNCHANGED <<db, job, javaVars>>
    <3>1. ~Settled /\ phase \in {"import", "asset"}
      BY <1>19 DEF TornImport, Settled, PhaseInv
    <3> QED BY <2>1, <3>1 DEF SavedInv, Settled, javaVars
  <2> QED BY <1>13, <1>19, <2>1 DEF TornImport
<1> QED BY <1>1, <1>2, <1>3, <1>4, <1>5, <1>6, <1>7, <1>8, <1>9, <1>10, <1>11,
           <1>12, <1>13, <1>14, <1>15, <1>16, <1>17, <1>18, <1>19
        DEF Next, Disturbance, Crash
-----------------------------------------------------------------------------
(* Types, and the theorems.                                                *)

LEMMA TypeOKNext ==
    ASSUME IInv, [Next]_vars
    PROVE  TypeOK'
<1>1. ImportTypeOK'
  BY ImportInvNext DEF ImportInv
<1> DEFINE Versions == {saved, saveSkip, lastUpdate} \subseteq Version
           View == conn \in Box \cup {NoBox} /\ phase \in Phases
           Flags == {usable, flagParseDB, skipDownload, recentRevert, torn} \subseteq BOOLEAN
           Restore == restore \in {"none", "copying", "copied"}
           Blame == blame \subseteq {"swallowed", "unsaved", "notReverted",
                                     "overwritten", "asset", "crash", "restoreCut"}
<1> USE DEF IInv, TypeOK, versionVars, restoreVars, counters
<1>2. Versions'
  <2>1. Package \in Version /\ \A b \in Box : BoxVersion[b] \in Version
    BY CatalogueUpdateAssumption
  <2> QED BY <2>1 DEF Next, Disturbance, Authenticate, Downloaded, DownloadFailed, DialogAnswered,
         ImportSucceeded, SaveVersions, ImportFailed, RestoreBegins, RestoreCopied,
         RestoreSaved, RestoreThrows, RestoreReturns, TornImport, RevertWindowEnds,
         FirstStatus, Disconnect, UserReset, ParseFromAsset, AssetParsed, Crash,
         ProcessEnds, Importing, vars, javaVars
<1>3. View'
  BY DEF Next, Disturbance, Authenticate, Downloaded, DownloadFailed, DialogAnswered,
         ImportSucceeded, SaveVersions, ImportFailed, RestoreBegins, RestoreCopied,
         RestoreSaved, RestoreThrows, RestoreReturns, TornImport, RevertWindowEnds,
         FirstStatus, Disconnect, UserReset, ParseFromAsset, AssetParsed, Crash,
         ProcessEnds, Importing, vars, javaVars, Phases
<1>4. Flags' /\ Restore'
  BY DEF Next, Disturbance, Authenticate, Downloaded, DownloadFailed, DialogAnswered,
         ImportSucceeded, SaveVersions, ImportFailed, RestoreBegins, RestoreCopied,
         RestoreSaved, RestoreThrows, RestoreReturns, TornImport, RevertWindowEnds,
         FirstStatus, Disconnect, UserReset, ParseFromAsset, AssetParsed, Crash,
         ProcessEnds, Importing, vars, javaVars
<1>5. Blame'
  BY DEF Next, Disturbance, Authenticate, Downloaded, DownloadFailed, DialogAnswered,
         ImportSucceeded, SaveVersions, ImportFailed, RestoreBegins, RestoreCopied,
         RestoreSaved, RestoreThrows, RestoreReturns, TornImport, RevertWindowEnds,
         FirstStatus, Disconnect, UserReset, ParseFromAsset, AssetParsed, Crash,
         ProcessEnds, Importing, vars, javaVars
<1>6. /\ crashes' \in 0..MaxCrashes /\ resets' \in 0..MaxResets
      /\ losses' \in 0..MaxLosses
  <2>1. MaxCrashes \in Nat /\ MaxResets \in Nat /\ MaxLosses \in Nat
    BY CatalogueUpdateAssumption
  <2>2. /\ crashes' # crashes => crashes < MaxCrashes /\ crashes' = crashes + 1
        /\ resets' # resets => resets < MaxResets /\ resets' = resets + 1
        /\ losses' # losses => losses < MaxLosses /\ losses' = losses + 1
    BY DEF Next, Disturbance, Authenticate, Downloaded, DownloadFailed, DialogAnswered,
           ImportSucceeded, SaveVersions, ImportFailed, RestoreBegins, RestoreCopied,
           RestoreSaved, RestoreThrows, RestoreReturns, TornImport, RevertWindowEnds,
           FirstStatus, Disconnect, UserReset, ParseFromAsset, AssetParsed, Crash,
           ProcessEnds, Importing, vars, javaVars
  <2>3. crashes' \in 0..MaxCrashes
    BY <2>1, <2>2
  <2>4. resets' \in 0..MaxResets /\ losses' \in 0..MaxLosses
    BY <2>1, <2>2
  <2> QED BY <2>3, <2>4
<1> QED BY <1>1, <1>2, <1>3, <1>4, <1>5, <1>6

LEMMA InitInv == Init => IInv
<1> SUFFICES ASSUME Init PROVE IInv
  OBVIOUS
<1> USE DEF Init, ImportInit
<1>1. Package \in Version /\ Catalogue(Package) \in Contents /\ Whole(Catalogue(Package))
  BY CatalogueUpdateAssumption, CatalogueType, CatalogueWhole
<1>2. TypeOK
  <2>1. /\ faults \in 0..MaxFaults /\ crashes \in 0..MaxCrashes
        /\ resets \in 0..MaxResets /\ losses \in 0..MaxLosses
    BY SongImportAssumption, CatalogueUpdateAssumption
  <2>2. ImportTypeOK
    <3>1. step \in DOMAIN After \cup {"idle"}
      BY Zenon
    <3>2. row \in Nat \ {0}
      OBVIOUS
    <3>3. inTx \in BOOLEAN
      OBVIOUS
    <3> QED BY <1>1, <2>1, <3>1, <3>2, <3>3 DEF ImportTypeOK
  <2>3. {usable, flagParseDB, skipDownload, recentRevert, torn} \subseteq BOOLEAN
    OBVIOUS
  <2> QED BY <1>1, <2>1, <2>2, <2>3 DEF TypeOK, Phases
<1>3. ImportInv
  BY <1>1, <1>2, StartOrder
     DEF ImportInv, TypeOK, TxInv, ProgressInv, WholeInv, SuccessIsWhole
<1>4. JavaInv
  BY DEF JavaInv, PhaseInv, RestoreInv, SavedInv
<1> QED BY <1>2, <1>3, <1>4 DEF IInv

LEMMA Inductive == Spec => []IInv
<1>1. IInv /\ [Next]_vars => IInv'
  BY TypeOKNext, ImportInvNext, PhaseInvNext, RestoreInvNext, SavedInvNext DEF IInv, JavaInv
<1> QED BY <1>1, InitInv, PTL DEF Spec

\* The variables of the activity and of the import keep their types.
THEOREM CatalogueTypeCorrect == Spec => []TypeOK
<1>1. IInv => TypeOK
  BY DEF IInv
<1> QED BY <1>1, Inductive, PTL

\* Whatever fails, restarts or is refused, a reader finds only songs with all
\* their people and links, until a failure is swallowed.
THEOREM SongsStayWhole == Spec => []SongsAreWhole
<1>1. IInv => SongsAreWhole
  BY NoSongsLate DEF IInv, SongsAreWhole, Whole
<1> QED BY <1>1, Inductive, PTL

\* importTocToDatabase returns true only with its catalogue in the database,
\* until a failure is swallowed.
THEOREM TrueIsWhole == Spec => []SuccessIsWhole
<1>1. IInv => SuccessIsWhole
  BY DEF IInv, ImportInv
<1> QED BY <1>1, Inductive, PTL

\* The saved version names the catalogue in the database, but for the seven
\* causes in blame; a restore cut between its copy and its save is one of them.
THEOREM SavedIsTrue == Spec => []SavedDescribesDatabase
<1>1. IInv => SavedDescribesDatabase
  BY DEF IInv, JavaInv, SavedInv, Settled, SavedDescribesDatabase
<1> QED BY <1>1, Inductive, PTL
=============================================================================
