----------------------------- MODULE HashIndex -----------------------------
(***************************************************************************)
(* The primary-key index: a hash table of fixed-size pages.  Page 0 holds  *)
(* the number of buckets, bucket b is page b, and a full page links to an  *)
(* overflow page.  Deleting marks an entry; nothing is ever moved, except  *)
(* by resize, which doubles the buckets and inserts every entry again.     *)
(*                                                                         *)
(* A writer changes private versions of the pages.  Its commit advances    *)
(* the clock, then publishes them one by one, then drops the versions they *)
(* supersede.  A lookup holds no lock; it reads the header, then one page  *)
(* at a time, while commits go on.  The index has no merge at commit as    *)
(* tables have: `overlapped' records that writers were open together,      *)
(* after which entries may be lost and nothing more is claimed.            *)
(***************************************************************************)
EXTENDS Integers, Sequences, SequencesExt

CONSTANTS
    Txs,             \* write transactions
    Keys,            \* primary-key values: records [tag, val]
    HashOf,          \* SipHash of a tag and a value
    InitialBuckets,
    PageEntries,     \* MAX_ENTRIES_PER_PAGE
    MaxOps,          \* bound on inserts, deletes and resizes together
    MaxResizes       \* bound on resizes

VARIABLES
    pages,        \* the newest committed version of each page
    fileLen,      \* FileHandle::num_pages
    numBuckets,   \* HashIndex::num_buckets, in memory
    own,          \* the pages each open transaction has versions of
    reader,       \* a lookup under way
    commit,       \* the commit under way, which holds commit_lock
    ops, resizes,
    truth,        \* history: committed key -> row, 0 for none
    mine,         \* history: the same as each open transaction sees it
    base,         \* history: commits when each open transaction began
    commits,      \* history: commits that changed the index
    overlapped,   \* history: writers were open together
    resized       \* history: a resize was committed

vars == <<pages, fileLen, numBuckets, own, reader, commit, ops, resizes,
          truth, mine, base, commits, overlapped, resized>>
history == <<truth, mine, base, commits, overlapped, resized>>

Blank == [next |-> 0, entries |-> <<>>]
HeaderPage(n) == [next |-> n, entries |-> <<>>]

\* hash_value tags nodes and relationships alike; everything else apart.
HashTag(tag) == IF tag = "rel" THEN "node" ELSE tag
ComputeHash(k) == HashOf[<<HashTag(k.tag), k.val>>]

\* serialize_value: a tag byte and the value in a slot of MAX_VAL_SIZE bytes.
\* Other kinds of values, and strings that do not fit, cannot be keys.
TagByte == [number |-> 0, string |-> 1, bool |-> 2, node |-> 3, rel |-> 4, date |-> 5, timestamp |-> 6]
TooLong == "longer than a slot"
Serializable(k) == k.tag \in DOMAIN TagByte /\ ~(k.tag = "string" /\ k.val = TooLong)
Serialize(k) == <<TagByte[k.tag], k.val>>
Deserialize(b) == [tag |-> CHOOSE t \in DOMAIN TagByte : TagByte[t] = b[1], val |-> b[2]]

PageOf(view, p) == IF p \in DOMAIN view THEN view[p] ELSE Blank

\* What a writer's pin_page and create_new_version return: its own version, or
\* the newest committed one (a writer does so during another's commit only after
\* `overlapped').
View(tx) == [p \in DOMAIN own[tx] \cup DOMAIN pages |->
                IF p \in DOMAIN own[tx] THEN own[tx][p] ELSE pages[p]]
ViewAt(overlay) == [p \in DOMAIN overlay \cup DOMAIN pages |->
                IF p \in DOMAIN overlay THEN overlay[p] ELSE pages[p]]
Put(f, p, page) == [q \in DOMAIN f \cup {p} |-> IF q = p THEN page ELSE f[q]]

\* Mutant: an entry marked deleted still matches.
Matches_Deleted(e, k) == e.hash = ComputeHash(k) /\ Deserialize(e.key) = k

Matches(e, k) == ~e.deleted /\ e.hash = ComputeHash(k) /\ Deserialize(e.key) = k

\* scan_bucket_page with the limit of one lookup asks for.
FirstMatch(page, k) ==
    LET found == SelectSeq(page.entries, LAMBDA e : Matches(e, k))
    IN  IF found = <<>> THEN 0 ELSE found[1].row

\* The pages of a chain, in order, as far as they are linked.
RECURSIVE Chain(_, _)
Chain(view, p) ==
    <<p>> \o (IF PageOf(view, p).next = 0 THEN <<>> ELSE Chain(view, PageOf(view, p).next))

Buckets(view) == PageOf(view, 0).next
BucketOf(h, n) == 1 + (h % n)

\* lookup_multi, in one transaction's view of the pages.
Lookup(view, k) ==
    IF Buckets(view) = 0 THEN 0
    ELSE LET chain == Chain(view, BucketOf(ComputeHash(k), Buckets(view)))
             hits == SelectSeq(chain, LAMBDA p : FirstMatch(PageOf(view, p), k) # 0)
         IN  IF hits = <<>> THEN 0 ELSE FirstMatch(PageOf(view, hits[1]), k)

\* initialize_header: a header and the buckets, appended to the file.
InitializeHeader(f) ==
    [pages |-> [p \in DOMAIN f.pages \cup f.len .. f.len + numBuckets |->
                    IF p = f.len THEN HeaderPage(numBuckets)
                    ELSE IF p > f.len THEN Blank ELSE f.pages[p]],
     len |-> f.len + numBuckets + 1]

\* write_entry_to_page into the first page of the chain with room, or into a
\* new overflow page linked to the last one.
InsertInto(w, e, n) ==
    LET view == ViewAt(w.own)
        chain == Chain(view, BucketOf(e.hash, n))
        room == SelectSeq(chain, LAMBDA p : Len(PageOf(view, p).entries) < PageEntries)
        last == chain[Len(chain)]
    IN  IF room # <<>>
        THEN [w EXCEPT !.own = Put(@, room[1],
                [PageOf(view, room[1]) EXCEPT !.entries = Append(@, e)])]
        ELSE [own |-> Put(Put(w.own, last, [PageOf(view, last) EXCEPT !.next = w.len]),
                          w.len, [Blank EXCEPT !.entries = <<e>>]),
              len |-> w.len + 1]

\* Delete marks the first live entry of this key and row.
MarkDeleted(view, overlay, k, row) ==
    IF Buckets(view) = 0 THEN overlay
    ELSE LET chain == Chain(view, BucketOf(ComputeHash(k), Buckets(view)))
             At(p) == SelectInSeq(PageOf(view, p).entries,
                                  LAMBDA e : Matches(e, k) /\ e.row = row)
             hits == SelectSeq(chain, LAMBDA p : At(p) # 0)
         IN  IF hits = <<>> THEN overlay
             ELSE Put(overlay, hits[1],
                      [PageOf(view, hits[1]) EXCEPT !.entries[At(hits[1])].deleted = TRUE])

\* collect_all_entries, bucket by bucket.
CollectAll(view) ==
    LET Live(p) == SelectSeq(PageOf(view, p).entries, LAMBDA e : ~e.deleted)
        Bucket(b) == FlattenSeq([i \in DOMAIN Chain(view, b) |-> Live(Chain(view, b)[i])])
    IN  FlattenSeq([b \in 1 .. Buckets(view) |-> Bucket(b)])

\* Mutant: entries are inserted again by the old number of buckets.
ResizedPages_OldBuckets(overlay, len) ==
    LET old == numBuckets
        new == 2 * old
        len2 == IF len < 1 + new THEN 1 + new ELSE len
        cleared == [p \in DOMAIN overlay \cup len .. len2 - 1 \cup old + 1 .. new \cup {0} |->
                        IF p = 0 THEN HeaderPage(new)
                        ELSE IF p \in old + 1 .. new \/ p >= len THEN Blank ELSE overlay[p]]
        Again(w, e) == InsertInto(w, e, old)
    IN  FoldLeft(Again, [own |-> cleared, len |-> len2], CollectAll(ViewAt(overlay)))

\* The pages resize writes: the new buckets zeroed (some may have been overflow
\* pages), the header, then every entry again, the old ones left where they are.
ResizedPages(overlay, len) ==
    LET old == numBuckets
        new == 2 * old
        entries == CollectAll(ViewAt(overlay))
        len2 == IF len < 1 + new THEN 1 + new ELSE len
        cleared == [p \in DOMAIN overlay \cup len .. len2 - 1 \cup old + 1 .. new \cup {0} |->
                        IF p = 0 THEN HeaderPage(new)
                        ELSE IF p \in old + 1 .. new \/ p >= len THEN Blank ELSE overlay[p]]
        Again(w, e) == InsertInto(w, e, new)
    IN  FoldLeft(Again, [own |-> cleared, len |-> len2], entries)

-----------------------------------------------------------------------------
NoReader == [on |-> FALSE]
NoCommit == [on |-> FALSE]

Fresh == [pages |-> [p \in 0 .. InitialBuckets |->
                        IF p = 0 THEN HeaderPage(InitialBuckets) ELSE Blank],
          len |-> InitialBuckets + 1]

\* open_or_create: a new file, or one a crash left empty.
Init ==
    /\ \E f \in {Fresh, [pages |-> <<>>, len |-> 0]} :
          pages = f.pages /\ fileLen = f.len
    /\ numBuckets = InitialBuckets
    /\ own = <<>> /\ reader = NoReader /\ commit = NoCommit /\ ops = 0 /\ resizes = 0
    /\ truth = [k \in Keys |-> 0] /\ mine = <<>> /\ base = <<>> /\ commits = 0
    /\ overlapped = FALSE /\ resized = FALSE

Begin(tx) ==
    /\ tx \notin DOMAIN own
    /\ own' = Put(own, tx, <<>>)
    /\ mine' = Put(mine, tx, truth)
    /\ base' = Put(base, tx, commits)
    /\ UNCHANGED <<pages, fileLen, numBuckets, reader, commit, ops, resizes, truth, commits,
                   overlapped, resized>>

\* A transaction that can still run statements.
Open(tx) == tx \in DOMAIN own /\ ~(commit.on /\ commit.tx = tx)

Overlap(tx) == \/ base[tx] # commits
               \/ \E other \in DOMAIN own \ {tx} : own[other] # <<>>

\* The primary key of a new row: looked up, then inserted.  An index whose
\* header reads zero is initialised first, straight to the file.
Insert(tx, k) ==
    /\ Open(tx) /\ ops < MaxOps
    /\ Lookup(View(tx), k) = 0
    /\ Serializable(k)
    /\ ops' = ops + 1
    /\ LET f == IF Buckets(View(tx)) = 0
                THEN InitializeHeader([pages |-> pages, len |-> fileLen])
                ELSE [pages |-> pages, len |-> fileLen]
           n == IF Buckets(View(tx)) = 0 THEN numBuckets ELSE Buckets(View(tx))
           e == [hash |-> ComputeHash(k), key |-> Serialize(k), row |-> ops + 1, deleted |-> FALSE]
           w == InsertInto([own |-> own[tx], len |-> f.len], e, n)
       IN  /\ pages' = f.pages
           /\ own' = [own EXCEPT ![tx] = w.own]
           /\ fileLen' = w.len
    /\ mine' = [mine EXCEPT ![tx][k] = ops + 1]
    /\ overlapped' = (overlapped \/ Overlap(tx))
    /\ UNCHANGED <<numBuckets, reader, commit, resizes, truth, base, commits, resized>>

\* A row is deleted by the one transaction that marked it.
Delete(tx, k) ==
    /\ Open(tx) /\ ops < MaxOps
    /\ mine[tx][k] # 0
    /\ ops' = ops + 1
    /\ own' = [own EXCEPT ![tx] = MarkDeleted(View(tx), @, k, mine[tx][k])]
    /\ mine' = [mine EXCEPT ![tx][k] = 0]
    /\ overlapped' = (overlapped \/ Overlap(tx))
    /\ UNCHANGED <<pages, fileLen, numBuckets, reader, commit, resizes, truth, base, commits, resized>>

\* Its callers, the tests, resize an index that has been initialised.
Resize(tx) ==
    /\ Buckets(pages) # 0
    /\ Open(tx) /\ ops < MaxOps /\ resizes < MaxResizes
    /\ ops' = ops + 1 /\ resizes' = resizes + 1
    /\ LET w == ResizedPages(own[tx], fileLen)
       IN  own' = [own EXCEPT ![tx] = w.own] /\ fileLen' = w.len
    /\ numBuckets' = 2 * numBuckets
    /\ overlapped' = (overlapped \/ Overlap(tx))
    /\ UNCHANGED <<pages, reader, commit, truth, mine, base, commits, resized>>

Doubled(tx) == 0 \in DOMAIN own[tx]

\* What a lookup of k may answer when it meets a commit: the row before it or
\* the row after it, and none when the commit gives k another row, for the old
\* entry and the new one can be on pages that are published apart.
Answers(was, now, k) ==
    {was[k], now[k]} \cup (IF was[k] # 0 /\ now[k] # 0 /\ was[k] # now[k] THEN {0} ELSE {})

\* Under commit_lock the clock advances: transactions that begin from now on see
\* what this commit has published, those that run keep to the versions before.
CommitStart(tx) ==
    /\ tx \in DOMAIN own /\ ~commit.on
    /\ commit' = [on |-> TRUE, tx |-> tx, left |-> DOMAIN own[tx],
                  old |-> [p \in DOMAIN own[tx] |-> PageOf(pages, p)], was |-> truth]
    /\ truth' = IF own[tx] = <<>> THEN truth ELSE mine[tx]
    /\ commits' = IF own[tx] = <<>> THEN commits ELSE commits + 1
    /\ reader' = IF ~reader.on THEN reader
                 ELSE [reader EXCEPT !.may = @ \cup Answers(truth, truth', reader.key),
                                     !.torn = @ \/ Doubled(tx), !.behind = TRUE]
    /\ resized' = (resized \/ Doubled(tx))
    /\ UNCHANGED <<pages, fileLen, numBuckets, own, ops, resizes, mine, base, overlapped>>

\* update_timestamps of one of the modified pages (in any order: the pages of
\* every index and column of the transaction are in one list).
PublishPage(p) ==
    /\ commit.on /\ p \in commit.left
    /\ pages' = Put(pages, p, own[commit.tx][p])
    /\ commit' = [commit EXCEPT !.left = @ \ {p}]
    /\ UNCHANGED <<fileLen, numBuckets, own, reader, ops, resizes, history>>

Without(f, tx) == [t \in DOMAIN f \ {tx} |-> f[t]]

\* The superseded versions are gone from the pool.
CommitEnd ==
    /\ commit.on /\ commit.left = {}
    /\ commit' = NoCommit
    /\ own' = Without(own, commit.tx)
    /\ mine' = Without(mine, commit.tx)
    /\ base' = Without(base, commit.tx)
    /\ UNCHANGED <<pages, fileLen, numBuckets, reader, ops, resizes, truth, commits,
                   overlapped, resized>>

\* Pages stay allocated, and numBuckets stays doubled.
Rollback(tx) ==
    /\ Open(tx)
    /\ own' = Without(own, tx)
    /\ mine' = Without(mine, tx)
    /\ base' = Without(base, tx)
    /\ UNCHANGED <<pages, fileLen, numBuckets, reader, commit, ops, resizes, truth, commits,
                   overlapped, resized>>

\* pin_page by a reader that began before the clock of the commit under way
\* advanced (behind), or after.  Behind, the version before the commit: until the
\* commit flushes its pages, when one that was not resident is read from the file.
Visible(p, behind) ==
    IF commit.on /\ behind /\ p \in DOMAIN commit.old
    THEN {commit.old[p]} \cup (IF commit.left = {} THEN {PageOf(pages, p)} ELSE {})
    ELSE {PageOf(pages, p)}

\* A lookup by a reader: the header ...
LookupStart(k) ==
    /\ ~reader.on
    /\ \E behind \in IF commit.on THEN BOOLEAN ELSE {FALSE} :
       \E header \in Visible(0, behind) :
          reader' = [on |-> TRUE, key |-> k, row |-> 0, behind |-> behind,
                     may |-> IF commit.on THEN Answers(commit.was, truth, k) ELSE {truth[k]},
                     torn |-> commit.on /\ Doubled(commit.tx),
                     at |-> IF header.next = 0 THEN 0
                            ELSE BucketOf(ComputeHash(k), header.next)]
    /\ UNCHANGED <<pages, fileLen, numBuckets, own, commit, ops, resizes, history>>

\* ... then page after page, as each is when it is read.
LookupPage ==
    /\ reader.on /\ reader.at # 0
    /\ \E page \in Visible(reader.at, reader.behind) :
          reader' = [reader EXCEPT !.row = IF @ = 0 THEN FirstMatch(page, reader.key) ELSE @,
                                   !.at = page.next]
    /\ UNCHANGED <<pages, fileLen, numBuckets, own, commit, ops, resizes, history>>

LookupEnd ==
    /\ reader.on /\ reader.at = 0
    /\ reader' = NoReader
    /\ UNCHANGED <<pages, fileLen, numBuckets, own, commit, ops, resizes, history>>

Next ==
    \/ \E tx \in Txs : Begin(tx) \/ Resize(tx) \/ CommitStart(tx) \/ Rollback(tx)
    \/ commit.on /\ \E p \in commit.left : PublishPage(p)
    \/ CommitEnd
    \/ \E tx \in Txs, k \in Keys : Insert(tx, k) \/ Delete(tx, k)
    \/ \E k \in Keys : LookupStart(k)
    \/ LookupPage
    \/ LookupEnd

Spec == Init /\ [][Next]_vars

-----------------------------------------------------------------------------
LookupDone == reader.on /\ reader.at = 0

\* A lookup answers what the index held for its key at some moment while it ran,
\* whatever commits publish page by page around it: it misses a key that is there
\* only while a commit is giving the key another row, and never answers a row of
\* another key, a row deleted before it began or one of a rolled-back insert.
LookupRight == LookupDone /\ ~overlapped /\ ~resized => reader.row \in reader.may

\* A key that was in the index all along with one row is found, also after a
\* resize (over overflow pages, or after one that was rolled back), though not by
\* a lookup that meets the commit of a resize.
NoKeyLost == LookupDone /\ ~overlapped /\ ~reader.torn /\ 0 \notin reader.may => reader.row # 0

=============================================================================
