------------------------------- MODULE Sheets -------------------------------
(***************************************************************************)
(* The spreadsheet that records go to.  A process has one client with its  *)
(* caches; a write looks for the worksheet of its kind, adds it when it is *)
(* not there, reads the header or puts one, lays its row out by that       *)
(* header and appends it.  Each of these is a request that other writes    *)
(* and the people who use the sheet come between, and may fail.            *)
(***************************************************************************)
EXTENDS Integers, SequencesExt

CONSTANTS Clients,    \* the processes that write records
          Mappings    \* configured kinds: what the deploy config says of them

VARIABLES sheets,  \* worksheets in the order they were added
          caches,  \* what each client remembers
          writes,  \* the writes under way
          lost     \* records that were given up

sheetVars == <<sheets, caches, writes, lost>>

-----------------------------------------------------------------------------
(* A few columns of each kind stand for all of them. *)
DEFAULT_COLUMNS == [user   |-> <<"eventTime", "userName">>,
                    nightly |-> <<"runId", "recordStatus">>,
                    project |-> <<"project", "gateStatus">>]
Kinds == DOMAIN DEFAULT_COLUMNS
mappingOf(kind) ==
  IF kind \in DOMAIN Mappings THEN Mappings[kind]
  ELSE [worksheet |-> kind, columns |-> DEFAULT_COLUMNS[kind]]

(* A cell is the path of the payload it was taken from, or is blank. *)
Payload(kind) == CASE kind = "user" -> {"eventTime", "displayName"}
                   [] kind = "nightly" -> {"runId", "recordStatus", "overallStatus"}
                   [] kind = "project" -> {"runId", "project", "projectName", "gateStatus"}
Aliases(column) == CASE column = "userName" -> <<"displayName">>
                     [] column = "aggregateStatus" -> <<"overallStatus">>
                     [] column = "projectId" -> <<"projectName">>
                     [] OTHER -> <<>>
Cell(kind, column) ==
  LET found == SelectSeq(Append(Aliases(column), column), LAMBDA path : path \in Payload(kind))
  IN IF found = <<>> THEN "" ELSE Head(found)
buildRow(kind, header) == [i \in DOMAIN header |-> Cell(kind, header[i])]

validHeader(header) ==
  /\ "" \notin ToSet(header)
  /\ IsInjective(header)

-----------------------------------------------------------------------------
ASSUME ColumnsAreListed ==
  \A kind \in Kinds : LET columns == mappingOf(kind).columns IN columns \in Seq(ToSet(columns))

\* Nothing remembered: no worksheet id, no columns.
Unknown == [id |-> 0, columns |-> <<>>, edition |-> 0]
NewClient == [kind \in Kinds |-> Unknown]
(* `edition' counts the headers a worksheet has had, a row keeps the one it *)
(* was put under and whether that was the edition its client had read.      *)
Worksheet(title) == [title |-> title, header |-> <<>>, edition |-> 0, rows |-> {}]
Titled(title) == {id \in DOMAIN sheets : sheets[id].title = title}

Begin(client, record) == [client |-> client, record |-> record, at |-> "worksheet"]
Move(w, at) == writes' = (writes \ {w}) \cup {[w EXCEPT !.at = at]}
Known(w) == caches[w.client][w.record.kind]
Learn(w, what) == caches' = [caches EXCEPT ![w.client][w.record.kind] = what]

SheetsInit ==
  /\ sheets = <<>> /\ writes = {} /\ lost = {}
  /\ caches = [c \in Clients |-> NewClient]

EnsureWorksheet(w) ==
  /\ w.at = "worksheet"
  /\ LET there == Titled(mappingOf(w.record.kind).worksheet) IN
     CASE Known(w).id # 0 -> Move(w, "header") /\ UNCHANGED caches
       [] Known(w).id = 0 /\ there # {} ->
            /\ \E id \in there : Learn(w, [Unknown EXCEPT !.id = id])
            /\ Move(w, "header")
       [] OTHER -> Move(w, "add") /\ UNCHANGED caches
  /\ UNCHANGED <<sheets, lost>>

(* The service takes no second worksheet of a title: Fail is all there is. *)
AddWorksheet(w) ==
  LET title == mappingOf(w.record.kind).worksheet IN
  /\ w.at = "add" /\ Titled(title) = {}
  /\ sheets' = Append(sheets, Worksheet(title))
  /\ Learn(w, [Unknown EXCEPT !.id = Len(sheets) + 1])
  /\ Move(w, "header")
  /\ UNCHANGED lost
Refused(w) == w.at = "add" /\ Titled(mappingOf(w.record.kind).worksheet) # {}

(* Mutation of EnsureHeader: the configured columns, whatever the sheet has. *)
AssumeHeader(w) ==
  LET sheet == sheets[Known(w).id] IN
  /\ w.at = "header"
  /\ Learn(w, [Known(w) EXCEPT !.columns = mappingOf(w.record.kind).columns,
                               !.edition = sheet.edition])
  /\ Move(w, IF sheet.header = <<>> THEN "put" ELSE "append")
  /\ UNCHANGED <<sheets, lost>>
EnsureHeader(w) ==
  LET sheet == sheets[Known(w).id] IN
  /\ w.at = "header"
  /\ \/ Known(w).columns # <<>> /\ Move(w, "append") /\ UNCHANGED caches
     \/ /\ Known(w).columns = <<>> /\ sheet.header # <<>> /\ validHeader(sheet.header)
        /\ Learn(w, [Known(w) EXCEPT !.columns = sheet.header, !.edition = sheet.edition])
        /\ Move(w, "append")
     \/ Known(w).columns = <<>> /\ sheet.header = <<>> /\ Move(w, "put") /\ UNCHANGED caches
  /\ UNCHANGED <<sheets, lost>>
Unusable(w) ==
  /\ w.at = "header" /\ Known(w).columns = <<>>
  /\ ~validHeader(sheets[Known(w).id].header)

(* The configured columns, from the first cell on, over whatever is there. *)
PutHeader(w) ==
  LET columns == mappingOf(w.record.kind).columns
      old == sheets[Known(w).id].header
      new == columns \o SubSeq(old, Len(columns) + 1, Len(old))
      edition == sheets[Known(w).id].edition + (IF old \in {<<>>, new} THEN 0 ELSE 1)
  IN /\ w.at = "put"
     /\ sheets' = [sheets EXCEPT ![Known(w).id].header = new, ![Known(w).id].edition = edition]
     /\ Learn(w, [Known(w) EXCEPT !.columns = columns, !.edition = edition])
     /\ Move(w, "append")
     /\ UNCHANGED lost

AppendRow(w) ==
  LET id == Known(w).id IN
  /\ w.at = "append"
  /\ sheets' = [sheets EXCEPT ![id].rows = @ \cup
       {[record |-> w.record, cells |-> buildRow(w.record.kind, Known(w).columns),
         under |-> sheets[id].header, fresh |-> Known(w).edition = sheets[id].edition]}]
  /\ writes' = writes \ {w}
  /\ UNCHANGED <<caches, lost>>

(* Any request may fail; the provider logs it and the write is over. *)
Fail(w) ==
  /\ writes' = writes \ {w}
  /\ lost' = lost \cup {w.record}
  /\ UNCHANGED <<sheets, caches>>

WriteStep(w) ==
  EnsureWorksheet(w) \/ AddWorksheet(w) \/ EnsureHeader(w) \/ PutHeader(w) \/ AppendRow(w)

(* People arrange the columns of a worksheet as they like. *)
EditHeader(id, header) ==
  /\ header # sheets[id].header
  /\ sheets' = [sheets EXCEPT ![id].header = header, ![id].edition = @ + 1]
  /\ UNCHANGED <<caches, writes, lost>>

(* A process ends, with its client: what it was writing is lost. *)
Forget(client) ==
  /\ caches' = [caches EXCEPT ![client] = NewClient]
  /\ writes' = {w \in writes : w.client # client}
  /\ lost' = lost \cup {w.record : w \in {v \in writes : v.client = client}}
  /\ UNCHANGED sheets

-----------------------------------------------------------------------------
(* What keeps rows under their columns: a client that has read the latest  *)
(* edition of a header, or has put it, has the cells the header begins     *)
(* with, and a write past the search knows its worksheet.                  *)
\* The configured columns, and those that people put beside them.
Columns == {"note", "runId"} \cup UNION {ToSet(mappingOf(kind).columns) : kind \in Kinds}
SheetRecords == [kind : Kinds, run : Nat]
Cells == {Cell(kind, column) : kind \in Kinds, column \in Columns}
Rows == [record : SheetRecords, cells : Seq(Cells), under : Seq(Columns), fresh : BOOLEAN]
Worksheets == [title : {mappingOf(kind).worksheet : kind \in Kinds}, header : Seq(Columns),
               edition : Nat, rows : SUBSET Rows]
Memories == [id : Nat, columns : Seq(Columns), edition : Nat]
WriteSteps == {"worksheet", "add", "header", "put", "append"}
Writes == [client : Clients, record : SheetRecords, at : WriteSteps]
SheetsTypeOK ==
  /\ sheets \in Seq(Worksheets)
  /\ caches \in [Clients -> [Kinds -> Memories]]
  /\ writes \subseteq Writes
  /\ lost \subseteq SheetRecords

Begins(header, columns) ==
  Len(columns) <= Len(header) /\ \A i \in 1 .. Len(columns) : columns[i] = header[i]
Remembered(known) ==
  known.id # 0 =>
    /\ known.id \in DOMAIN sheets /\ known.edition <= sheets[known.id].edition
    /\ known.edition = sheets[known.id].edition => Begins(sheets[known.id].header, known.columns)
CachesFit ==
  /\ \A c \in Clients, kind \in Kinds : Remembered(caches[c][kind])
  /\ \A w \in writes : w.at \in {"header", "put", "append"} => Known(w).id # 0
RowFits(row) ==
  row.fresh => /\ Len(row.cells) <= Len(row.under)
               /\ \A i \in DOMAIN row.cells : row.cells[i] = Cell(row.record.kind, row.under[i])
RowsFit == \A id \in DOMAIN sheets : \A row \in sheets[id].rows : RowFits(row)
OneRowEach ==
  \A id, other \in DOMAIN sheets : \A row \in sheets[id].rows, twin \in sheets[other].rows :
    twin.record = row.record => twin = row /\ other = id

(* A record is in one write or in one row. *)
InRows == UNION {{row.record : row \in sheets[id].rows} : id \in DOMAIN sheets}
InWrites == {w.record : w \in writes}
RecordsApart ==
  /\ InWrites \cap InRows = {}
  /\ \A v, w \in writes : v.record = w.record => v = w
  /\ OneRowEach
SheetsInv == SheetsTypeOK /\ CachesFit /\ RowsFit /\ RecordsApart
=============================================================================
