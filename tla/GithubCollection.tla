-------------------------- MODULE GithubCollection --------------------------
(***************************************************************************)
(* Collection of the results of GitHub workflows: the settings that the    *)
(* API server keeps (github-workflow/handler.go) and the conversion of     *)
(* result files to rows (resource-manager/pkg/github/csv_parser.go).       *)
(*                                                                         *)
(* The recording of workflow runs is not modelled: its statements insert   *)
(* ON CONFLICT (github_run_id), of which the tables have no unique index.  *)
(***************************************************************************)
EXTENDS Integers, Sequences, SequencesExt, FiniteSets

CONSTANTS Patterns,   \* patterns of settings, as sequences of characters
          Files,      \* result files: [head, rows], sequences of cells
          MaxChanges  \* bound: changes of the setting

VARIABLES config,   \* the collection setting
          file      \* a result file, and the rows it was converted to

vars == <<config, file>>

-----------------------------------------------------------------------------
\* Collection settings: lists of patterns are joined with commas, and split and
\* trimmed when they are read. A pattern is a sequence of characters.

Field == {"files", "branches"}
NoConfig == [is |-> FALSE, stored |-> [x \in Field |-> <<>>], asked |-> [x \in Field |-> <<>>], n |-> 0]

sliceToArr(ps) ==
    <<"{">> \o FlattenSeq([k \in DOMAIN ps |-> IF k = 1 THEN ps[k] ELSE <<",">> \o ps[k]]) \o <<"}">>

\* Quotes are trimmed first, then spaces.
Stripped(p, c) ==
    LET kept == {i \in DOMAIN p : p[i] # c}
    IN  IF kept = {} THEN <<>> ELSE SubSeq(p, CHOOSE i \in kept : \A k \in kept : i <= k, CHOOSE i \in kept : \A k \in kept : i >= k)

pgArr(s) ==
    LET body == SubSeq(s, 2, Len(s) - 1)
        ends == <<0>> \o SetToSortSeq({i \in DOMAIN body : body[i] = ","}, <) \o <<Len(body) + 1>>
        part(k) == Stripped(Stripped(SubSeq(body, ends[k] + 1, ends[k + 1] - 1), "quote"), " ")
    IN  SelectSeq([k \in 1 .. Len(ends) - 1 |-> part(k)], LAMBDA p : p # <<>>)

handleListConfigs == [x \in Field |-> pgArr(config.stored[x])]

\* given has the lists of the request: none or one for each field. A list that
\* is not given is stored as empty at first, and stays as it is later.
handleCreateConfig(given) ==
    /\ ~config.is /\ config.n < MaxChanges /\ given["files"] # {}
    /\ LET lists == [x \in Field |-> IF given[x] = {} THEN <<>> ELSE CHOOSE ps \in given[x] : TRUE]
       IN  config' = [is |-> TRUE, stored |-> [x \in Field |-> sliceToArr(lists[x])], asked |-> lists, n |-> config.n + 1]
    /\ UNCHANGED file

handleUpdateConfig(given) ==
    /\ config.is /\ config.n < MaxChanges
    /\ LET new(old, F(_)) == [x \in Field |-> IF given[x] = {} THEN old[x] ELSE F(CHOOSE ps \in given[x] : TRUE)]
       IN  config' = [config EXCEPT !.stored = new(@, sliceToArr), !.asked = new(@, LAMBDA ps : ps), !.n = @ + 1]
    /\ UNCHANGED file

handleDeleteConfig ==
    /\ config.is /\ config.n < MaxChanges /\ config' = [NoConfig EXCEPT !.n = config.n + 1]
    /\ UNCHANGED file

-----------------------------------------------------------------------------
\* Result files. A cell is a text; "D" and "E" are dates.

Dates == {"D", "E"}
Ignored == {"", "#"}
isWideTable(head) == \E i \in DOMAIN head : head[i] \in Dates
Columns(head, S) == {i \in DOMAIN head : head[i] \notin Ignored /\ (head[i] \in Dates) = (S = "date")}

Dims(head, row) == {<<head[i], row[i]>> : i \in Columns(head, "dim")}

\* The rows that repeat the header, or are comments.
Repeats(head, row) == row[1] = "#" \/ (Len(row) > 1 /\ row[2] = head[2])

parseWideTable(head, data) ==
    FlattenSeq([k \in DOMAIN data |->
        IF Repeats(head, data[k]) THEN <<>>
        ELSE LET cells == SetToSortSeq({i \in Columns(head, "date") : data[k][i] # ""}, <)
             IN  [n \in DOMAIN cells |-> [dims |-> Dims(head, data[k]), date |-> head[cells[n]], value |-> data[k][cells[n]]]]])

parseRegularTable(head, data) ==
    LET kept == SelectSeq(data, LAMBDA row : row[1] # head[1] /\ Columns(head, "dim") # {})
    IN  [k \in DOMAIN kept |-> [dims |-> Dims(head, kept[k]), date |-> "", value |-> ""]]

ParseCSVToRows(f) ==
    IF f.rows = <<>> THEN <<>>
    ELSE IF isWideTable(f.head) THEN parseWideTable(f.head, f.rows) ELSE parseRegularTable(f.head, f.rows)

CollectFromPVC ==
    /\ Files # {} /\ ~file.done
    /\ file' = [file EXCEPT !.done = TRUE, !.out = ParseCSVToRows([head |-> file.head, rows |-> file.rows])]
    /\ UNCHANGED config

-----------------------------------------------------------------------------
Init ==
    /\ config = NoConfig
    /\ file \in {[head |-> f.head, rows |-> f.rows, done |-> FALSE, out |-> <<>>] :
                    f \in IF Files = {} THEN {[head |-> <<>>, rows |-> <<>>]} ELSE Files}

Lists == {{}} \cup {{ps} : ps \in UNION {[1 .. n -> Patterns] : n \in 0 .. 2}}

Next ==
    \/ (Patterns # {} /\ \E given \in [Field -> Lists] : handleCreateConfig(given) \/ handleUpdateConfig(given))
    \/ handleDeleteConfig \/ CollectFromPVC

Spec == Init /\ [][Next]_vars

-----------------------------------------------------------------------------
\* Patterns are read as they were given, if they have no comma, and no space
\* or quote at their ends; what a request does not give stays.
PatternsAreKept ==
    config.is => \A x \in Field :
        (\A k \in DOMAIN config.asked[x] : LET p == config.asked[x][k] IN
            p # <<>> /\ (\A i \in DOMAIN p : p[i] # ",") /\ {p[1], p[Len(p)]} \cap {" ", "quote"} = {})
        => handleListConfigs[x] = config.asked[x]

\* Every value of a dated column is one row with what its row says, and no row
\* holds anything else.
ValuesAreKept ==
    file.done /\ isWideTable(file.head) /\ file.head[2] # "" =>
        LET Data == {k \in DOMAIN file.rows : file.rows[k][1] # "#" /\ file.rows[k][2] # file.head[2]}
            Cells == {c \in Data \X DOMAIN file.head : file.head[c[2]] \in Dates /\ file.rows[c[1]][c[2]] # ""}
        IN  /\ Len(file.out) = Cardinality(Cells)
            /\ \A c \in Cells : \E n \in DOMAIN file.out :
                  /\ file.out[n].date = file.head[c[2]] /\ file.out[n].value = file.rows[c[1]][c[2]]
                  /\ \A i \in DOMAIN file.head : file.head[i] \notin Dates \cup Ignored =>
                        <<file.head[i], file.rows[c[1]][i]>> \in file.out[n].dims
=============================================================================
