------------------------------- MODULE Coffee -------------------------------
(***************************************************************************)
(* The Coffee file system, core/cfs/cfs-coffee.c, on the flash driver of   *)
(* MiddleWare/fs/cfs-coffee-arch.c, in the configuration of the build: no  *)
(* micro logs, extended wear levelling.  A file is an extent of contiguous *)
(* pages whose first page holds the header; nothing else on the medium     *)
(* says what a page is, so every search skips from header to header.       *)
(*                                                                         *)
(* A call is computed on a record s of the flash image and the protected   *)
(* memory; it leaves the sequence s.ops of flash operations, which the     *)
(* medium then takes one at a time, so that a reset may come in between.   *)
(* Data is counted in blocks of one page and the header fills a page of    *)
(* its own.                                                                *)
(***************************************************************************)
EXTENDS Integers, Sequences, FiniteSets, SequencesExt, FiniteSetsExt, Functions

CONSTANTS
    Names,             \* file names
    Values,            \* blocks that are not all zero
    Zero,              \* a block of zeros
    Absent,            \* no name, no file
    SECTOR_COUNT,
    PAGES_PER_SECTOR,
    MAX_OPEN_FILES,    \* entries of coffee_files
    FD_SET_SIZE,       \* entries of coffee_fd_set
    DYN_PAGES,         \* pages of a file that cfs_open creates
    Modes,             \* the sets of flags that files are opened with
    Sizes,             \* blocks asked of cfs_coffee_reserve
    MaxLength,         \* bound: no write beyond this many blocks
    MaxSeek,           \* bound: no seek beyond this many blocks
    MaxTears           \* bound: resets in the middle of a flash operation

ASSUME CoffeeAssumption ==
    /\ {SECTOR_COUNT, PAGES_PER_SECTOR, MAX_OPEN_FILES, FD_SET_SIZE, DYN_PAGES}
          \subseteq Nat \ {0}
    /\ Sizes \cup {MaxLength, MaxSeek, MaxTears} \subseteq Nat
    /\ Zero \notin Values /\ Absent \notin Names \cup Seq(Values \cup {Zero})
    /\ Modes \subseteq (SUBSET {"READ", "WRITE", "APPEND"}) \ {{}}

VARIABLES
    medium,     \* the pages of the flash
    files,      \* coffee_files
    fds,        \* coffee_fd_set
    next_free,  \* where the search for free pages starts
    gc_wait,    \* collecting garbage is known to be useless
    todo,       \* flash operations of the last call not yet done
    tears,      \* resets so far in the middle of a flash operation
    mountable,  \* no reset has left a medium on which searches go wrong
    contents    \* derived: the files that a search finds once todo is done

vars == <<medium, files, fds, next_free, gc_wait, todo, tears, mountable, contents>>

PAGE_COUNT == SECTOR_COUNT * PAGES_PER_SECTOR
Pages == 0 .. PAGE_COUNT - 1
INVALID_PAGE == -1
UNKNOWN_OFFSET == -1
Slots == 1 .. MAX_OPEN_FILES
Fds == 1 .. FD_SET_SIZE
NoSlot == 0

(* A page: free (never written, or zeros), a header, or data. *)
Page(kind, name, max, value) ==
    [kind |-> kind, name |-> name, max_pages |-> max, value |-> value]
Free == Page("free", Absent, 0, Zero)
Isolated == Page("isolated", Absent, 0, Zero)
Header(kind, name, max) == Page(kind, name, max, Zero)
Data(v) == IF v = Zero THEN Free ELSE Page("data", Absent, 0, v)

(* What a free slot or descriptor still holds is never read: it is cleared. *)
NoFile == [page |-> INVALID_PAGE, max_pages |-> 0, end |-> UNKNOWN_OFFSET,
           references |-> 0]
NoFd == [flags |-> {}, file |-> NoSlot, offset |-> 0]

TypeOK ==
    /\ medium \in [Pages -> [kind : {"free", "active", "obsolete", "isolated", "data"},
                             name : Names \cup {Absent},
                             max_pages : 0 .. PAGE_COUNT,
                             value : Values \cup {Zero}]]
    /\ files \in [Slots -> [page : Pages \cup {INVALID_PAGE},
                            max_pages : 0 .. PAGE_COUNT,
                            end : Nat \cup {UNKNOWN_OFFSET},
                            references : 0 .. FD_SET_SIZE]]
    /\ fds \in [Fds -> [flags : Modes \cup {{}}, file : Slots \cup {NoSlot},
                        offset : Nat]]
    /\ next_free \in 0 .. PAGE_COUNT
    /\ gc_wait \in BOOLEAN
    /\ tears \in 0 .. MaxTears
    /\ mountable \in BOOLEAN

-----------------------------------------------------------------------------
(* The flash driver: an operation writes one page or clears one sector, and *)
(* both erase the sector around it first.                                   *)

Sector(p) == p \div PAGES_PER_SECTOR
SectorPages(x) == {p \in Pages : Sector(p) = x}

(* Mutant of Erase: one page too many is cleared. *)
Erase_beyond(x) ==
    [sector |-> x, new |-> [q \in SectorPages(x) \cup {p \in Pages : Sector(p - 1) = x} |-> Free]]

Program(p, page) == [sector |-> Sector(p), new |-> [q \in {p} |-> page]]
Erase(x) == [sector |-> x, new |-> [q \in SectorPages(x) |-> Free]]

Apply(fl, op) ==
    [p \in Pages |-> IF p \in DOMAIN op.new THEN op.new[p] ELSE fl[p]]

(* A reset during op: the first pages of the sector are written, the rest   *)
(* still holds ones, which read as a header with every flag set: isolated.  *)
Torn(fl, op, last) ==
    [p \in Pages |-> IF p \notin SectorPages(op.sector) THEN fl[p]
                     ELSE IF p < last THEN Apply(fl, op)[p] ELSE Isolated]

Put(s, op) == [s EXCEPT !.flash = Apply(s.flash, op), !.ops = Append(s.ops, op)]

write_header(s, page, hdr) == Put(s, Program(page, hdr))

-----------------------------------------------------------------------------
(* Searching the medium *)

next_file(fl, p) ==
    CASE fl[p].kind \in {"free", "data"} -> (Sector(p) + 1) * PAGES_PER_SECTOR
      [] fl[p].kind = "isolated" -> p + 1
      [] OTHER -> p + fl[p].max_pages

(* The pages whose headers a search reads from page from up to page to. *)
Chain(fl, from, to) ==
    LET visit[p \in Nat] == IF p >= to THEN {} ELSE {p} \cup visit[next_file(fl, p)]
    IN  visit[from]

Extents(fl) == {p \in Chain(fl, 0, PAGE_COUNT) : fl[p].kind = "active"}

ExtentOf(fl, p) == p .. p + fl[p].max_pages - 1

Named(fl, n) == {p \in Extents(fl) : fl[p].name = n}

(* Mutant of file_end: the search starts one page early. *)
file_end_early(fl, p) ==
    Max({0} \cup {k \in 1 .. fl[p].max_pages - 2 : fl[p + k] # Free})

(* Blocks up to the last one that is not zero. *)
file_end(fl, p) ==
    Max({0} \cup {k \in 1 .. fl[p].max_pages - 1 : fl[p + k] # Free})

(* What a program that starts now would find. *)
Contents(fl) ==
    LET extents == Extents(fl)
        first(n) == Min({p \in extents : fl[p].name = n})
        data(p) == [k \in 1 .. file_end(fl, p) |-> fl[p + k].value]
    IN  [n \in Names |-> IF \E p \in extents : fl[p].name = n THEN data(first(n))
                         ELSE Absent]

-----------------------------------------------------------------------------
(* Garbage collection *)

(* What lies in sector x from its page skip on; the pages before belong to  *)
(* an extent of an earlier sector.                                          *)
CountSector(fl, x, skip, last_active) ==
    LET start == x * PAGES_PER_SECTOR
        visited == Chain(fl, start + skip, start + PAGES_PER_SECTOR)
        kinds == {fl[p].kind : p \in visited}
        over == Max({0, next_file(fl, Max(visited)) - start - PAGES_PER_SECTOR})
        active == fl[Max(visited)].kind = "active"
    IN  [active |-> "active" \in kinds \/ (last_active /\ skip > 0),
         obsolete |-> kinds \cap {"isolated", "obsolete"} # {}
                         \/ (~last_active /\ skip > 0),
         skip |-> over, last_active |-> active,
         isolate |-> IF active \/ over >= PAGES_PER_SECTOR THEN 0 ELSE over]

(* Mutant of get_sector_status: a sector inside an extent always counts as   *)
(* obsolete.                                                                *)
get_sector_status_covered(fl, x, skip, last_active) ==
    IF skip < PAGES_PER_SECTOR THEN CountSector(fl, x, skip, last_active)
    ELSE [active |-> FALSE, obsolete |-> TRUE, skip |-> skip - PAGES_PER_SECTOR,
          last_active |-> last_active, isolate |-> 0]

(* skip and last_active are the static variables of the code; isolate is    *)
(* the number of pages to mark in the next sector before x is erased.       *)
get_sector_status(fl, x, skip, last_active) ==
    LET left == skip - PAGES_PER_SECTOR
    IN  IF left < 0 THEN CountSector(fl, x, skip, last_active)
        ELSE [active |-> last_active, obsolete |-> ~last_active, skip |-> left,
              last_active |-> last_active,
              isolate |-> IF last_active \/ left >= PAGES_PER_SECTOR THEN 0 ELSE left]

(* Mark the pages that an obsolete extent leaves in the next sector. *)
isolate_pages(s, start, count) ==
    LET marked[i \in 0 .. count] ==
            IF i = 0 THEN s ELSE write_header(marked[i - 1], start + i - 1, Isolated)
    IN  marked[count]

(* Sector x, of the status st, is erased when no page of it is active and   *)
(* some are obsolete; c is what was done in the sectors before.             *)
Collect(c, x, st) ==
    LET t == isolate_pages(c.s, (x + 1) * PAGES_PER_SECTOR, st.isolate)
        first == x * PAGES_PER_SECTOR
    IN  [skip |-> st.skip, last_active |-> st.last_active,
         s |-> IF st.obsolete /\ ~st.active
               THEN [Put(t, Erase(x)) EXCEPT !.next_free = Min({@, first})]
               ELSE c.s]

(* The greedy mode *)
collect_garbage(s) ==
    LET collect(c, x) == Collect(c, x, get_sector_status(c.s.flash, x, c.skip, c.last_active))
        collected[x \in 0 .. SECTOR_COUNT] ==
            IF x = 0 THEN [s |-> s, skip |-> 0, last_active |-> FALSE]
            ELSE collect(collected[x - 1], x - 1)
    IN  collected[SECTOR_COUNT].s

-----------------------------------------------------------------------------
(* Allocating an extent *)

(* Mutant of find_contiguous_pages: no header is read.  *)
find_contiguous_pages_over(s, amount) ==
    IF s.next_free < PAGE_COUNT THEN s.next_free ELSE INVALID_PAGE

(* The start of the first run of free pages of that length, from next_free. *)
find_contiguous_pages(s, amount) ==
    LET visited == Chain(s.flash, s.next_free, PAGE_COUNT)
        free == {p \in visited : s.flash[p].kind = "free"}
        starts == {p \in free : /\ \A q \in free : next_file(s.flash, q) # p
                                /\ p + amount < PAGE_COUNT
                                /\ \A q \in visited : q \in p .. p + amount - 1 => q \in free}
    IN  IF starts = {} THEN INVALID_PAGE ELSE Min(starts)

(* The pages that find_contiguous_pages hands out leave the free area. *)
Taken(s, start, amount) ==
    IF start = s.next_free THEN [s EXCEPT !.next_free = start + amount] ELSE s

(* Mutant of load_slot: any slot but the first is overwritten. *)
load_slot_last(s) == MAX_OPEN_FILES

(* A slot for a file: a free one, or the last that nobody refers to. *)
load_slot(s) ==
    LET free == {i \in Slots : s.files[i].max_pages = 0}
        unreferenced == {i \in Slots : s.files[i].references = 0}
    IN  IF free # {} THEN Min(free)
        ELSE IF unreferenced # {} THEN Max(unreferenced) ELSE NoSlot

LoadInto(s, i, start, max, end) ==
    [s |-> IF i = NoSlot THEN s
           ELSE [s EXCEPT !.files[i] = [@ EXCEPT !.page = start, !.max_pages = max,
                                                 !.end = end]],
     slot |-> i]

load_file(s, start, max, end) == LoadInto(s, load_slot(s), start, max, end)

(* The slot of the file n, from the cache or after a search of the medium. *)
find_file(s, n) ==
    LET cached == {i \in Slots : /\ s.files[i].max_pages > 0
                                 /\ s.flash[s.files[i].page].kind = "active"
                                 /\ s.flash[s.files[i].page].name = n}
        found == Named(s.flash, n)
    IN  CASE cached # {} -> [s |-> s, slot |-> Min(cached)]
          [] cached = {} /\ found # {} ->
                load_file(s, Min(found), s.flash[Min(found)].max_pages, UNKNOWN_OFFSET)
          [] OTHER -> [s |-> s, slot |-> NoSlot]

(* The header of the new extent for n is written before a slot is found. *)
Allocated(s, n, pages, p) ==
    IF p = INVALID_PAGE THEN [s |-> [s EXCEPT !.gc_wait = TRUE], slot |-> NoSlot]
    ELSE load_file(write_header(Taken(s, p, pages), p, Header("active", n, pages)),
                   p, pages, 0)

AllocatedAnywhere(s, n, pages) == Allocated(s, n, pages, find_contiguous_pages(s, pages))

(* Mutant of reserve: it gives up without a collection. *)
reserve_no_collect(s, n, pages) == AllocatedAnywhere(s, n, pages)

(* Garbage is collected when no room is found, unless that was in vain. *)
reserve(s, n, pages) ==
    IF find_contiguous_pages(s, pages) # INVALID_PAGE \/ s.gc_wait
    THEN AllocatedAnywhere(s, n, pages)
    ELSE AllocatedAnywhere(collect_garbage(s), n, pages)

(* Mutant of remove_by_page: the slot stays in the cache. *)
remove_by_page_cached(s, page, close_fds) ==
    [write_header(s, page, Header("obsolete", s.flash[page].name, s.flash[page].max_pages))
       EXCEPT !.gc_wait = FALSE]

(* The file at a page becomes obsolete and leaves the cache. *)
remove_by_page(s, page, close_fds) ==
    LET old == s.flash[page]
        t == write_header(s, page, Header("obsolete", old.name, old.max_pages))
        at(i) == i # NoSlot /\ s.files[i].page = page
    IN  [t EXCEPT
           !.gc_wait = FALSE,
           !.fds = [d \in Fds |-> IF close_fds /\ at(s.fds[d].file)
                                  THEN NoFd ELSE s.fds[d]],
           !.files = [i \in Slots |-> IF at(i) THEN NoFile ELSE s.files[i]]]

-----------------------------------------------------------------------------
(* The calls of cfs.h, as the state they leave *)

get_available_fd(s) == {d \in Fds : s.fds[d].flags = {}}

FoundOrMade(found, n, flags) ==
    IF found.slot # NoSlot \/ flags = {"READ"} THEN found
    ELSE reserve(found.s, n, DYN_PAGES)

(* Descriptor d gets the file; its end is looked up if it is not known. *)
Opened(file, d, flags) ==
    LET f == file.s.files[file.slot]
        end == IF f.end = UNKNOWN_OFFSET THEN file_end(file.s.flash, f.page) ELSE f.end
    IN  IF file.slot = NoSlot THEN [s |-> file.s, fd |-> NoSlot]
        ELSE [s |-> [file.s EXCEPT
                       !.files[file.slot] = [f EXCEPT !.end = end, !.references = @ + 1],
                       !.fds[d] = [flags |-> flags, file |-> file.slot,
                                   offset |-> IF "APPEND" \in flags THEN end ELSE 0]],
              fd |-> d]

(* fd = NoSlot says that the call failed. *)
Open(s, n, flags) ==
    IF get_available_fd(s) = {} THEN [s |-> s, fd |-> NoSlot]
    ELSE Opened(FoundOrMade(find_file(s, n), n, flags), Min(get_available_fd(s)), flags)

Close(s, d) ==
    [s EXCEPT !.files[s.fds[d].file].references = @ - 1,
              !.fds[d] = NoFd]

(* The first blocks of the file at old are copied to the extent of the     *)
(* slot, one by one, and every descriptor follows.                          *)
Moved(s, old, slot, length) ==
    LET page == s.files[slot].page
        copy(t, k) == Put(t, Program(page + k, t.flash[old + k]))
        copied[k \in 0 .. length] == IF k = 0 THEN s ELSE copy(copied[k - 1], k)
        follows == {e \in Fds : /\ s.fds[e].flags # {}
                                /\ s.files[s.fds[e].file].page = old}
    IN  [copied[length] EXCEPT
            !.fds = [e \in Fds |-> IF e \in follows
                                   THEN [@[e] EXCEPT !.file = slot] ELSE @[e]],
            !.files[slot].references = @ + Cardinality(follows)]

Rewritten(s, page) == write_header(s, page, s.flash[page])

(* made is the new extent; the old one becomes obsolete behind the copy. *)
Merged(made, fd, old) ==
    LET length == made.s.files[made.s.fds[fd].file].end
        moved == Moved(made.s, old, made.slot, length)
        done == Rewritten(remove_by_page(moved, old, FALSE), made.s.files[made.slot].page)
    IN  IF made.slot = NoSlot THEN [ok |-> FALSE, s |-> Close(made.s, fd)]
        ELSE [ok |-> TRUE, s |-> Close([done EXCEPT !.files[made.slot].end = length], fd)]

(* The file at old is opened once more, and moves to twice the size. *)
MergedFrom(s, opened, old) ==
    IF opened.fd = NoSlot THEN [ok |-> FALSE, s |-> s]
    ELSE Merged(reserve(opened.s, s.flash[old].name, 2 * s.flash[old].max_pages),
                opened.fd, old)

merge_log(s, d) ==
    LET old == s.files[s.fds[d].file].page
    IN  MergedFrom(s, Open(s, s.flash[old].name, {"READ"}), old)

(* The file of d grows until a block at the offset of d fits; with blocks   *)
(* of a page the loop of the code runs at most twice.                       *)
Extended(s, d) ==
    LET short(t) == t.fds[d].offset + 2 > t.files[t.fds[d].file].max_pages
        grow(r) == IF r.ok /\ short(r.s) THEN merge_log(r.s, d) ELSE r
    IN  grow(grow([ok |-> TRUE, s |-> s]))

Stored(s, d, v) ==
    LET i == s.fds[d].file
        k == s.fds[d].offset + 1
        t == Put(s, Program(s.files[i].page + k, Data(v)))
    IN  [t EXCEPT !.fds[d].offset = k, !.files[i].end = Max({@, k})]

Written(r, d, v) == IF r.ok THEN Stored(r.s, d, v) ELSE r.s

-----------------------------------------------------------------------------
(* The actions: a call, a flash operation, a reset *)

(* The flash when everything is done that the last call asked for. *)
Image ==
    LET image[k \in 0 .. Len(todo)] ==
            IF k = 0 THEN medium ELSE Apply(image[k - 1], todo[k])
    IN  image[Len(todo)]

State == [flash |-> medium, files |-> files, fds |-> fds, next_free |-> next_free,
          gc_wait |-> gc_wait, ops |-> <<>>]

Idle == todo = <<>> /\ mountable

Commit(s) ==
    /\ files' = s.files
    /\ fds' = s.fds
    /\ next_free' = s.next_free
    /\ gc_wait' = s.gc_wait
    /\ todo' = s.ops
    /\ contents' = Contents(s.flash)
    /\ UNCHANGED <<medium, tears, mountable>>

Init ==
    /\ medium = [p \in Pages |-> Free]
    /\ files = [i \in Slots |-> NoFile]
    /\ fds = [d \in Fds |-> NoFd]
    /\ next_free = 0
    /\ gc_wait = FALSE
    /\ todo = <<>>
    /\ tears = 0
    /\ mountable = TRUE
    /\ contents = [n \in Names |-> Absent]

cfs_open(n, flags) == Idle /\ Commit(Open(State, n, flags).s)

cfs_close(d) ==
    /\ Idle /\ fds[d].flags # {}
    /\ Commit(Close(State, d))

(* A seek past the end moves the end; a page more than the data can take    *)
(* is let through, the size of the header is not counted.                   *)
cfs_seek(d, offset) ==
    LET i == fds[d].file IN
    /\ Idle /\ fds[d].flags # {}
    /\ offset <= files[i].max_pages
    /\ Commit([State EXCEPT !.files[i].end = Max({@, offset}), !.fds[d].offset = offset])

cfs_read(d) ==
    /\ Idle /\ "READ" \in fds[d].flags
    /\ Commit([State EXCEPT !.fds[d].offset = Min({@ + 1, files[fds[d].file].end})])

cfs_write(d, v) ==
    /\ Idle /\ "WRITE" \in fds[d].flags
    /\ fds[d].offset < MaxLength
    /\ Commit(Written(Extended(State, d), d, v))

cfs_remove(n) ==
    LET found == find_file(State, n) IN
    /\ Idle
    /\ found.slot # NoSlot
    /\ Commit(remove_by_page(found.s, found.s.files[found.slot].page, TRUE))

cfs_coffee_reserve(n, size) ==
    LET found == find_file(State, n) IN
    /\ Idle
    /\ Commit(IF found.slot # NoSlot THEN found.s ELSE reserve(found.s, n, size + 1).s)

cfs_coffee_format ==
    /\ todo = <<>>
    /\ todo' = [x \in 1 .. SECTOR_COUNT |-> Erase(x - 1)]
    /\ contents' = [n \in Names |-> Absent]
    /\ files' = [i \in Slots |-> NoFile]
    /\ fds' = [d \in Fds |-> NoFd]
    /\ next_free' = 0
    /\ gc_wait' = FALSE
    /\ mountable' = TRUE
    /\ UNCHANGED <<medium, tears>>

flash_step ==
    /\ todo # <<>>
    /\ medium' = Apply(medium, Head(todo))
    /\ todo' = Tail(todo)
    /\ UNCHANGED <<files, fds, next_free, gc_wait, tears, mountable, contents>>

HeadersOnly(fl) == \A p \in Chain(fl, 0, PAGE_COUNT) : fl[p].kind # "data"

(* All remaining pages in a sector are free (find_contiguous_pages). *)
FreeToTheEnd(fl) ==
    \A p \in Chain(fl, 0, PAGE_COUNT) :
        fl[p].kind = "free" => \A q \in SectorPages(Sector(p)) : q > p => fl[q] = Free

NoNameTwice(fl) == \A n \in Names : Cardinality(Named(fl, n)) <= 1

(* Power fails and the program starts again: the memory is cleared, of the  *)
(* flash operation under way a part may be done.  When that leaves a medium *)
(* on which a search meets data where a header should be, takes pages for   *)
(* free that are not, or finds the old and the new extent of a file that    *)
(* was being extended, the model goes on only with a format.                *)
reset ==
    /\ \/ UNCHANGED <<medium, tears>>
       \/ /\ todo # <<>> /\ tears < MaxTears
          /\ tears' = tears + 1
          /\ \E last \in SectorPages(Head(todo).sector) :
                medium' = Torn(medium, Head(todo), last)
    /\ mountable' = (mountable /\ HeadersOnly(medium') /\ FreeToTheEnd(medium')
                     /\ NoNameTwice(medium'))
    /\ contents' = Contents(medium')
    /\ todo' = <<>>
    /\ files' = [i \in Slots |-> NoFile]
    /\ fds' = [d \in Fds |-> NoFd]
    /\ next_free' = 0
    /\ gc_wait' = FALSE

Next ==
    \/ \E n \in Names :
          \/ \E flags \in Modes : cfs_open(n, flags)
          \/ \E size \in Sizes : cfs_coffee_reserve(n, size)
          \/ cfs_remove(n)
    \/ \E d \in Fds :
          \/ cfs_close(d)
          \/ cfs_read(d)
          \/ \E offset \in 0 .. MaxSeek : cfs_seek(d, offset)
          \/ \E v \in Values : cfs_write(d, v)
    \/ cfs_coffee_format
    \/ flash_step
    \/ reset

Spec == Init /\ [][Next]_vars

-----------------------------------------------------------------------------
(* What the code relies on and does not ensure itself *)

(* Sector x has a page of an extent of that kind. *)
Holds(fl, kind, x) ==
    \E h \in Pages : fl[h].kind = kind /\ \E q \in ExtentOf(fl, h) : Sector(q) = x

(* No obsolete extent whose header lies beside an active one reaches into a *)
(* sector without active pages: the collector would erase it there only.    *)
NoOverhang(fl) ==
    \A h \in Pages : fl[h].kind = "obsolete" /\ Holds(fl, "active", Sector(h))
       => \A q \in ExtentOf(fl, h) : Holds(fl, "active", Sector(q))

(* No seek goes beyond the pages that are there for data. *)
EndsWithin ==
    \A i \in Slots : files[i].max_pages > 0 => files[i].end < files[i].max_pages

(* A slot is left for a file that is not in the cache, or none can come. *)
RoomInCache ==
    \/ \E i \in Slots : files[i].references = 0
    \/ /\ get_available_fd(State) = {}
       /\ \A n \in Names : \E i \in Slots :
             files[i].max_pages > 0 /\ medium[files[i].page].name = n

(* How the programs must use the file system for it to keep its promises:   *)
(* module CoffeeProofs.                                                     *)
Disciplined == EndsWithin /\ (Idle => RoomInCache /\ NoOverhang(medium))

-----------------------------------------------------------------------------
(* What the file system promises *)

Store == INSTANCE FileStore WITH store <- contents, busy <- todo # <<>>

(* A call changes the file it names as asked and no other, also when it     *)
(* extends the file, collects garbage or fails half way: cfs_open           *)
(* (cfs-coffee.c:996) to cfs_coffee_format (1346), seen by a program that   *)
(* starts again and searches the medium.                                    *)
IsFileStore == Store!Spec

(* Quick-skipping from header to header meets every extent once: extents do *)
(* not overlap and every file in the cache is one of them (next_file,       *)
(* cfs-coffee.c:412).                                                       *)
ExtentsApart ==
    LET fl == Image
        extents == Extents(fl)
    IN  mountable =>
          /\ \A p, q \in extents : p # q => ExtentOf(fl, p) \cap ExtentOf(fl, q) = {}
          /\ \A i \in Slots : files[i].max_pages > 0 => files[i].page \in extents

(* No name stands on two headers of the medium or on two entries of the     *)
(* cache, however often a file is extended, removed and made again or lost  *)
(* in a reset, as long as no call finds every entry of the cache taken      *)
(* (find_file 482, merge_log 820).                                          *)
OneExtentEach ==
    LET cached == {i \in Slots : files[i].max_pages > 0}
        name == [i \in cached |-> Image[files[i].page].name]
    IN  mountable => NoNameTwice(Image) /\ IsInjective(name)

(* A descriptor never stands beyond the end its file is known to have,      *)
(* which cfs_read subtracts without a test (cfs-coffee.c:1110); the known   *)
(* end never falls short of what is stored; a slot is given up only when no *)
(* descriptor refers to it (load_file 447).                                 *)
DescriptorsSound ==
    /\ \A d \in Fds : fds[d].flags # {} =>
          LET f == files[fds[d].file] IN
          f.max_pages > 0 /\ fds[d].offset <= f.end
    /\ \A i \in Slots : files[i].max_pages > 0 =>
          /\ files[i].references =
                Cardinality({d \in Fds : fds[d].flags # {} /\ fds[d].file = i})
          /\ files[i].end # UNKNOWN_OFFSET => files[i].end >= file_end(Image, files[i].page)

(* The two hints of the allocator lose nothing: no free page lies below     *)
(* next_free, and while gc_wait holds a collection would erase nothing      *)
(* (find_contiguous_pages 559, reserve 641).                                *)
HintsSound ==
    LET fl == Image IN
    mountable =>
    /\ \A p \in Chain(fl, 0, PAGE_COUNT) : p < next_free => fl[p].kind # "free"
    /\ gc_wait => collect_garbage([State EXCEPT !.flash = fl]).ops = <<>>

(* What the flash does, also when a reset breaks it off, harms only files    *)
(* that lie in the sector it is writing: the driver erases all pages of a   *)
(* sector to change one (stm32f10xx_flash_write, cfs-coffee-arch.c:105).    *)
(* The searches skip from header to header, so that this is said of media   *)
(* on which they meet headers only and skip free pages only.                *)
FlashIsLocal ==
    [][(todo # <<>> /\ HeadersOnly(medium') /\ FreeToTheEnd(medium')) =>
          \A n \in Names : \A p \in Named(medium, n) :
              (\A q \in ExtentOf(medium, p) : Sector(q) # Head(todo).sector)
              => p \in Named(medium', n)]_vars
=============================================================================
