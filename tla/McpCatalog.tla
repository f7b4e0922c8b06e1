----------------------------- MODULE McpCatalog -----------------------------
(***************************************************************************)
(* list and listPage of FileMcpRunStore (packages/mcp-server/src/store.ts) *)
(* against creates by other processes: a client follows the cursors from   *)
(* page to page.  A file is its place in the order of file names; its      *)
(* content is McpStore's subject.  A create is one step: the new name      *)
(* appears by a rename, and no call removes a name.                        *)
(***************************************************************************)
EXTENDS Naturals, Sequences, FiniteSets, SequencesExt

CONSTANTS
    Pagers,         \* clients that list
    FileNames,      \* names the creates may bring, in sorting order
    PageLimits,     \* page sizes the clients ask for
    MaxListedRuns,  \* maxRuns of the listing process
    MaxTornReads,   \* bound on reads that meet a rename
    NoCursor

ASSUME CatalogConstants ==
    /\ FileNames \subseteq Nat /\ IsFiniteSet(FileNames)
    /\ PageLimits \subseteq Nat \ {0} /\ MaxListedRuns \in Nat /\ MaxTornReads \in Nat

\* A cursor names the catalog that it was cut from and the last file before it.
Cursor == [catalog : Seq(Nat), file : Nat]

ASSUME NoCursorIsNoCursor == NoCursor \notin Cursor

VARIABLES
    names,     \* the stored files
    pager,     \* the call of each client and what it has collected
    tornReads

catalogVars == <<names, pager, tornReads>>

\* "files" is the catalog that the call read, "page" what it loaded of it,
\* "listing" the pages before this one.
IdlePager == [at |-> "idle", cursor |-> NoCursor, limit |-> 0, files |-> <<>>,
              start |-> 0, page |-> <<>>, listing |-> <<>>]

CatalogInit ==
    /\ names = {}
    /\ pager = [p \in Pagers |-> IdlePager]
    /\ tornReads = 0

-----------------------------------------------------------------------------
\* Another process creates a run; its own limit may be higher.
CreateFile(f) ==
    /\ f \notin names
    /\ names' = names \union {f}
    /\ UNCHANGED <<pager, tornReads>>

\* The names of a directory in sorting order.
Sorted(files) ==
    CHOOSE s \in [1 .. Cardinality(files) -> files] :
        \A i, j \in DOMAIN s : i < j => s[i] < s[j]

\* Mutation of StartOf: the cursor is not bound to the catalog it was cut from.
StartOfAny(cursor, files) ==
    IF cursor = NoCursor THEN 0
    ELSE CHOOSE i \in DOMAIN files : files[i] = cursor.file

Stale(cursor, files) == cursor # NoCursor /\ cursor.catalog # files

\* The index before the first file of the page.
StartOf(cursor, files) ==
    IF cursor = NoCursor THEN 0
    ELSE IF Stale(cursor, files) THEN Len(files) + 1
    ELSE CHOOSE i \in DOMAIN files : files[i] = cursor.file

\* listPage up to its first load: the directory is read at once.  A client
\* whose cursor is stale begins again; so does one that is over the limit.
ReadNames(p) ==
    \E limit \in PageLimits :
       LET files == Sorted(names)
           start == StartOf(pager[p].cursor, files)
       IN  /\ pager[p].at \in {"idle", "next"}
           /\ IF Len(files) > MaxListedRuns \/ start > Len(files)
              THEN pager' = [pager EXCEPT ![p] = IdlePager]
              ELSE pager' = [pager EXCEPT ![p] = [@ EXCEPT !.at = "load",
                       !.limit = limit, !.files = files, !.start = start, !.page = <<>>]]
           /\ UNCHANGED <<names, tornReads>>

\* The files of the page that remain to be loaded.
HasMore(q) == q.start + Len(q.page) < Len(q.files)
Remaining(q) == Len(q.page) < q.limit /\ HasMore(q)

LoadNext(p) ==
    /\ pager[p].at = "load" /\ Remaining(pager[p])
    /\ pager' = [pager EXCEPT ![p].page = Append(@, pager[p].files[pager[p].start + Len(@) + 1])]
    /\ UNCHANGED <<names, tornReads>>

\* An append renames the file between lstat and open: the call fails as if
\* the file were corrupt, and the client repeats it with the same cursor.
LoadMeetsRename(p) ==
    /\ pager[p].at = "load" /\ Remaining(pager[p])
    /\ tornReads < MaxTornReads
    /\ tornReads' = tornReads + 1
    /\ pager' = [pager EXCEPT ![p].at = "next"]
    /\ UNCHANGED names

\* The answer: a page, and a cursor as long as something follows.
ReplyPage(p) ==
    LET q == pager[p] IN
    /\ q.at = "load" /\ ~Remaining(q)
    /\ pager' = [pager EXCEPT ![p] = [q EXCEPT
           !.listing = @ \o q.page,
           !.at = IF HasMore(q) THEN "next" ELSE "done",
           !.cursor = IF HasMore(q) THEN [catalog |-> q.files, file |-> Last(q.page)]
                      ELSE NoCursor]]
    /\ UNCHANGED <<names, tornReads>>

\* The client has its listing and may want another one.
Forget(p) ==
    /\ pager[p].at = "done"
    /\ pager' = [pager EXCEPT ![p] = IdlePager]
    /\ UNCHANGED <<names, tornReads>>

CatalogNext ==
    \/ \E f \in FileNames : CreateFile(f)
    \/ \E p \in Pagers : ReadNames(p) \/ LoadNext(p) \/ LoadMeetsRename(p)
                         \/ ReplyPage(p) \/ Forget(p)

CatalogSpec == CatalogInit /\ [][CatalogNext]_catalogVars

-----------------------------------------------------------------------------
\* The pages that a client followed to the end are one catalog, each run once
\* and in order, although each call read the directory anew and runs were
\* created in between (store.ts, listPage).
PagesAreOneCatalog ==
    \A p \in Pagers :
       pager[p].at = "done" =>
          /\ pager[p].listing = pager[p].files
          /\ \A f \in Range(pager[p].listing) : f \in names
          /\ \A i, j \in DOMAIN pager[p].listing :
                i < j => pager[p].listing[i] < pager[p].listing[j]
=============================================================================
