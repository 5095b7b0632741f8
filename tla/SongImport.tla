----------------------------- MODULE SongImport -----------------------------
(***************************************************************************)
(* The native catalogue import (importTocToDatabase of SmartKaraoke.cpp):   *)
(* the box's catalogue replaces the rows of the application's database.     *)
(*                                                                          *)
(* The import is one long sequence of statements on one connection.  The    *)
(* tables are emptied by deletes in autocommit mode and filled by four      *)
(* transactions.  Only the row statements test what sqlite3_step returned;  *)
(* the deletes, the begins and the commits go through statement::step of    *)
(* libsqlite.h, which builds an exception object and does not throw it.     *)
(*                                                                          *)
(* Data: a row is a table and a key, and the contents of the database give  *)
(* each row the catalogue that wrote it, or NoVersion when it is absent.    *)
(* Two catalogues may differ in every column of a row they share.           *)
(***************************************************************************)
EXTENDS Naturals, Sequences

CONSTANTS
    Version,    \* the catalogues
    NoVersion,  \* the mark of an absent row
    Row,        \* the possible rows, each with a field "table"
    Toc,        \* the rows of each catalogue, in the order the loops write them
    MaxFaults   \* bound: failures of the storage engine in one behaviour

\* The songs with their links, and the people they link to.
SongTables == {"ZSONGS", "ZSONGSINGERS", "ZSONGMUSICIANS"}
ArtistTables == {"ZSINGERS", "ZMUSICIANS"}
Tables == {"ZSONGTYPES", "ZLANGUAGES"} \cup SongTables \cup ArtistTables

\* What each transaction writes.
Parts == {"types", "languages", "artists", "songs"}
PartTables == [types |-> {"ZSONGTYPES"}, languages |-> {"ZLANGUAGES"},
               artists |-> ArtistTables, songs |-> SongTables]

ASSUME SongImportAssumption ==
    /\ NoVersion \notin Version
    /\ MaxFaults \in Nat
    /\ \A r \in Row : r.table \in Tables
    /\ Toc \in [Version -> [Parts -> Seq(Row)]]
    /\ \A v \in Version, p \in Parts : \A i \in 1..Len(Toc[v][p]) :
          Toc[v][p][i].table \in PartTables[p]

VARIABLES
    db,      \* the committed contents of the database file
    work,    \* the contents as the import's connection sees them
    inTx,    \* a transaction is open
    step,    \* the next statement of the import; "idle" when none runs
    row,     \* the next row of the running transaction's loop
    job,     \* the catalogue of the running or last import
    result,  \* what importTocToDatabase returned, until Java has read it
    taint,   \* history: a failure was swallowed by this import ("new"), or by
             \* an earlier one and nothing has repaired it since ("old")
    faults   \* failures so far

importVars == <<db, work, inTx, step, row, job, result, taint, faults>>

Contents == [Row -> Version \cup {NoVersion}]

\* The statements, in the order of the code.
DeletedTable_Twice == [delTypes |-> "ZSONGTYPES", delLanguages |-> "ZLANGUAGES",
                 delSongs |-> "ZSONGS", delSongSingers |-> "ZSONGSINGERS",
                 delSongMusicians |-> "ZSONGMUSICIANS",
                 delSingers |-> "ZSINGERS", delMusicians |-> "ZSINGERS"]

DeletedTable == [delTypes |-> "ZSONGTYPES", delLanguages |-> "ZLANGUAGES",
                 delSongs |-> "ZSONGS", delSongSingers |-> "ZSONGSINGERS",
                 delSongMusicians |-> "ZSONGMUSICIANS",
                 delSingers |-> "ZSINGERS", delMusicians |-> "ZMUSICIANS"]
Deletes == {"delTypes", "delLanguages", "delSongs", "delSongSingers",
            "delSongMusicians", "delSingers", "delMusicians"}
Begins == {"beginTypes", "beginLanguages", "beginArtists", "beginSongs"}
After_SongsFirst == [delTypes |-> "beginTypes", beginTypes |-> "types",
          types |-> "delLanguages", delLanguages |-> "beginLanguages",
          beginLanguages |-> "languages", languages |-> "delSongs",
          delSongs |-> "delSongSingers", delSongSingers |-> "delSongMusicians",
          delSongMusicians |-> "delSingers", delSingers |-> "delMusicians",
          delMusicians |-> "beginSongs", beginSongs |-> "songs",
          songs |-> "beginArtists", beginArtists |-> "artists", artists |-> "idle"]

After == [delTypes |-> "beginTypes", beginTypes |-> "types",
          types |-> "delLanguages", delLanguages |-> "beginLanguages",
          beginLanguages |-> "languages", languages |-> "delSongs",
          delSongs |-> "delSongSingers", delSongSingers |-> "delSongMusicians",
          delSongMusicians |-> "delSingers", delSingers |-> "delMusicians",
          delMusicians |-> "beginArtists", beginArtists |-> "artists",
          artists |-> "beginSongs", beginSongs |-> "songs", songs |-> "idle"]

\* The rows of catalogue v, each marked with v, and nothing else.
HasRow(v, r) == \E p \in Parts : \E i \in 1..Len(Toc[v][p]) : Toc[v][p][i] = r
Catalogue(v) == [r \in Row |-> IF HasRow(v, r) THEN v ELSE NoVersion]

ImportInit(contents) ==
    /\ db = contents /\ work = contents
    /\ inTx = FALSE /\ step = "idle" /\ row = 1
    /\ job \in Version /\ result = "none" /\ taint = "none"
    /\ faults = 0
-----------------------------------------------------------------------------
\* A write is committed at once unless a transaction is open.
Write(contents) ==
    /\ work' = contents
    /\ db' = IF inTx THEN db ELSE contents

\* sqlite3_close, a rollback or the death of the process: what is not
\* committed is gone.
CloseTransaction == inTx' = FALSE /\ work' = db /\ UNCHANGED db

\* The call.  Files that do not parse are refused before the database opens.
Import(v, readable) ==
    /\ step = "idle"
    /\ job' = v /\ row' = 1
    /\ taint' = IF taint = "none" THEN "none" ELSE "old"
    /\ IF readable THEN step' = "delTypes" /\ result' = "none"
                   ELSE step' = "idle" /\ result' = "false"
    /\ UNCHANGED <<db, work, inTx>>

\* "delete from <table>".
Delete ==
    /\ step \in Deletes
    /\ Write([r \in Row |-> IF r.table = DeletedTable[step]
                             THEN NoVersion ELSE work[r]])
    /\ step' = After[step]
    /\ UNCHANGED <<inTx, row, job, result, taint, faults>>

\* "begin exclusive transaction"; inside a transaction it is an error.
Begin ==
    /\ step \in Begins
    /\ inTx' = TRUE /\ row' = 1 /\ step' = After[step]
    /\ UNCHANGED <<db, work, job, result, taint, faults>>

\* One "insert or replace" of a transaction's loop.
LoadRow ==
    /\ step \in Parts
    /\ row <= Len(Toc[job][step])
    /\ Write([work EXCEPT ![Toc[job][step][row]] = job])
    /\ row' = row + 1
    /\ UNCHANGED <<inTx, step, job, result, taint, faults>>

\* The end of the last transaction is the end of the import.
Proceed ==
    /\ step' = After[step]
    /\ result' = IF step = "songs" THEN "true" ELSE result

\* "commit"; an error when no transaction is open.
Commit ==
    /\ step \in Parts
    /\ row > Len(Toc[job][step])
    /\ db' = work /\ inTx' = FALSE
    /\ taint' = IF step = "songs" /\ taint = "old" THEN "none" ELSE taint
    /\ Proceed
    /\ UNCHANGED <<work, row, job, faults>>

\* A delete, begin or commit fails (a full disk, an I/O error) and the import
\* goes on as if it had not.  The engine may abandon the open transaction.
SwallowedFault ==
    /\ faults < MaxFaults
    /\ \/ step \in Deletes \cup Begins
       \/ step \in Parts /\ row > Len(Toc[job][step])
    /\ faults' = faults + 1
    /\ taint' = "new"
    /\ \/ CloseTransaction
       \/ step # "songs" /\ UNCHANGED <<db, work, inTx>>
    /\ row' = 1
    /\ Proceed
    /\ UNCHANGED job

\* A row statement fails: rollback, and the import returns false.
LoadFault ==
    /\ faults < MaxFaults
    /\ step \in Parts
    /\ row <= Len(Toc[job][step])
    /\ faults' = faults + 1
    /\ CloseTransaction
    /\ step' = "idle" /\ result' = "false"
    /\ UNCHANGED <<row, job, taint>>

\* One statement of the running import.
ImportStep ==
    \/ Delete \/ Begin \/ LoadRow \/ Commit \/ SwallowedFault \/ LoadFault
-----------------------------------------------------------------------------
\* Whenever a reader opens the database, a song it finds belongs to a
\* catalogue whose singers, musicians and links are all there and unmixed:
\* the list queries join the songs with both link tables and both people
\* tables, and drop a song that lacks one (DBInstance.createSongInfoQueryString).
\* It holds between any two statements, after a failed row and after a crash,
\* because the songs are deleted first and committed last.
SongsAreWhole ==
    taint = "none" =>
        \A r \in Row : r.table = "ZSONGS" /\ db[r] # NoVersion =>
            \A q \in Row : q.table \in SongTables \cup ArtistTables =>
                db[q] = Catalogue(db[r])[q]

\* An import that returned true without a swallowed failure has left exactly
\* its catalogue, whatever an earlier import, failure or crash left before.
SuccessIsWhole ==
    result = "true" /\ taint # "new" => db = Catalogue(job)

ImportTypeOK ==
    /\ db \in Contents /\ work \in Contents
    /\ inTx \in BOOLEAN
    /\ step \in DOMAIN After \cup {"idle"}
    /\ row \in Nat \ {0}
    /\ job \in Version
    /\ result \in {"none", "true", "false"}
    /\ taint \in {"none", "old", "new"}
    /\ faults \in 0..MaxFaults
=============================================================================
