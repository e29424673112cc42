---------------------------- MODULE ListObjects ----------------------------
(***************************************************************************)
(* Listing a bucket page by page: listObjects (ListObjects v1 and v2) of   *)
(* internal/s3api/handler.go, listObjectVersions of subresource.go, which  *)
(* pages like v1, and ListObjectsPage of internal/metadata/store.go.       *)
(*                                                                         *)
(* The server keeps nothing between two pages: the answer carries a cursor *)
(* (NextMarker or NextContinuationToken) that the client sends back.  Keys *)
(* are created and deleted between the pages, and while a page is scanned. *)
(* A page is one query, which reads one snapshot of the table.             *)
(*                                                                         *)
(* A key, a prefix and a delimiter are byte strings, because the prefix    *)
(* filter (a half-open range ending at prefixUpperBound), the order of the *)
(* rows and the delimiter rollup are defined on bytes.  The empty string   *)
(* is "absent", as in the code.                                            *)
(***************************************************************************)
EXTENDS Integers, Sequences, FiniteSets, Functions

CONSTANTS
  MaxByte,       \* 0xff
  Keys,          \* the keys clients use
  Prefixes,      \* the prefix parameters of listings, "" included
  Delimiters,    \* the delimiter parameters, "" included
  StartKeys,     \* the markers and start-after parameters of first pages
  PageSizes,     \* the max-keys parameters
  MaxKeysLimit,  \* 1000, the page size that replaces a parameter out of range
  MaxDisturbances  \* bound on the keys created, keys deleted and failed pages of one listing

Bytes == 0..MaxByte

Strings == Seq(Bytes)

ASSUME ListAssumption ==
  /\ MaxByte \in Nat
  /\ Keys \subseteq Strings \ {<<>>}
  /\ Prefixes \cup Delimiters \cup StartKeys \subseteq Strings
  /\ PageSizes \subseteq Int
  /\ MaxKeysLimit \in Nat \ {0}
  /\ MaxDisturbances \in Nat

VARIABLES
  present,   \* the keys of the bucket that are not deleted
  client,    \* "idle", "ask" (for a page), "wait" (for the answer), "done"
  query,     \* the parameters of the listing, the same on every page
  cursor,    \* the cursor the client sends: none on the first page
  scan,      \* the locals of ListObjectsPage
  objects,   \* the keys the answers have listed so far
  prefixes,  \* the common prefixes the answers have listed so far
  began,     \* history: the keys present when the listing began
  added,     \* history: the keys created since
  removed,   \* history: the keys deleted since
  disturbances  \* the number of creations, deletions and failed pages since

vars == <<present, client, query, cursor, scan, objects, prefixes, began, added, removed,
          disturbances>>

history == <<began, added, removed, disturbances>>

----------------------------------------------------------------------------
(* Byte strings                                                            *)

\* The order of the key column (BINARY collation): bytewise, a proper prefix
\* first.
Less(a, b) ==
  \E i \in 1..Len(b) :
    /\ \A j \in 1..i - 1 : j \in DOMAIN a /\ a[j] = b[j]
    /\ i \in DOMAIN a => a[i] < b[i]

HasPrefix(k, p) == Len(p) <= Len(k) /\ SubSeq(k, 1, Len(p)) = p

\* The last byte of the prefix is raised, whatever it is.
prefixUpperBound_noCarry(p) ==
  [p EXCEPT ![Len(p)] = IF @ = MaxByte THEN 0 ELSE @ + 1]

\* The least string above every string that starts with p: the last byte below
\* 0xff is raised and the rest dropped; "" when there is none.
prefixUpperBound(p) ==
  LET low == {i \in DOMAIN p : p[i] # MaxByte}
  IN  IF low = {}
        THEN <<>>
        ELSE LET i == CHOOSE j \in low : \A l \in low : l <= j
             IN  SubSeq(p, 1, i - 1) \o <<p[i] + 1>>

\* The common prefix that key k is rolled into: the prefix parameter and the
\* rest of k up to the first delimiter; "" when k is listed itself.
Rollup(q, k) ==
  LET m    == Len(q.delimiter)
      hits == {i \in Len(q.prefix) + 1..Len(k) - m + 1 : SubSeq(k, i, i + m - 1) = q.delimiter}
  IN  IF m = 0 \/ hits = {}
        THEN <<>>
        ELSE SubSeq(k, 1, (CHOOSE i \in hits : \A j \in hits : i <= j) + m - 1)

\* encodeListToken: base64, here a word over other letters; "" stays "".
encodeListToken(k) == [i \in DOMAIN k |-> k[i] + MaxByte + 1]

\* A token that decodeListToken accepts, and its key.
IsListToken(t) == \A i \in DOMAIN t : t[i] > MaxByte

decodeListToken(t) == [i \in DOMAIN t |-> t[i] - MaxByte - 1]

----------------------------------------------------------------------------
(* The request                                                             *)

\* max-keys as sent, zero included.
maxKeysOrDefault_zero(n) == IF n < 0 \/ n > MaxKeysLimit THEN MaxKeysLimit ELSE n

maxKeysOrDefault(n) == IF n <= 0 \/ n > MaxKeysLimit THEN MaxKeysLimit ELSE n

Queries ==
  [v2 : BOOLEAN, prefix : Prefixes, delimiter : Delimiters, start : StartKeys,
   maxKeys : {maxKeysOrDefault(n) : n \in PageSizes}]

NoQuery == [v2 |-> FALSE, prefix |-> <<>>, delimiter |-> <<>>, start |-> <<>>, maxKeys |-> 1]

\* The exclusive lower bound: v1 sends its cursor as the marker, in place of the
\* first page's; v2 sends a continuation token along with start-after.
After(q, c) ==
  IF c = <<>> THEN q.start ELSE IF q.v2 THEN decodeListToken(c) ELSE c

\* The WHERE clause of the query.
Selected(q, after) ==
  {k \in present :
     /\ after # <<>> => Less(after, k)
     /\ q.prefix # <<>> =>
          /\ ~Less(k, q.prefix)
          /\ prefixUpperBound(q.prefix) # <<>> => Less(k, prefixUpperBound(q.prefix))}

\* The locals of ListObjectsPage between two queries: the rows still to scan, the
\* page so far, the common prefixes seen, the size of the page, NextAfter.
NoScan == [rest |-> {}, objects |-> <<>>, prefixes |-> <<>>, seen |-> {}, count |-> 0,
           next |-> <<>>]

TypeOK ==
  /\ present \subseteq Keys
  /\ client \in {"idle", "ask", "wait", "done"}
  /\ query \in Queries \cup {NoQuery}
  /\ cursor \in Seq(0..2 * MaxByte + 1)
  /\ scan.rest \subseteq Keys
  /\ scan.objects \in Seq(Keys)
  /\ scan.prefixes \in Seq(Strings)
  /\ scan.seen \subseteq Strings
  /\ scan.count \in 0..query.maxKeys
  /\ scan.next \in Keys \cup {<<>>}
  /\ objects \in Seq(Keys)
  /\ prefixes \in Seq(Strings)
  /\ began \cup added \cup removed \subseteq Keys
  /\ disturbances \in 0..MaxDisturbances

----------------------------------------------------------------------------
(* Pages                                                                   *)

\* One of the disturbances MaxDisturbances bounds.
Disturb == disturbances < MaxDisturbances /\ disturbances' = disturbances + 1

\* A continuation token that is not base64.
StrayToken == <<0>>

\* The client begins a listing; a v2 client may bring a token of its own.
Begin(q) ==
  /\ client = "idle"
  /\ client' = "ask"
  /\ query' = q
  /\ cursor' \in {<<>>} \cup (IF q.v2 THEN {StrayToken} ELSE {})
  /\ began' = present
  /\ UNCHANGED <<present, scan, objects, prefixes, added, removed, disturbances>>

\* The client is through with a listing, or gives it up.
Forget ==
  /\ client' = "idle"
  /\ query' = NoQuery
  /\ cursor' = <<>>
  /\ objects' = <<>>
  /\ prefixes' = <<>>
  /\ began' = {}
  /\ added' = {}
  /\ removed' = {}
  /\ disturbances' = 0
  /\ UNCHANGED <<present, scan>>

\* listObjects up to the query, which fixes the rows of the page.
listObjects ==
  /\ client = "ask"
  /\ query.v2 => IsListToken(cursor)
  /\ client' = "wait"
  /\ scan' = [NoScan EXCEPT !.rest = Selected(query, After(query, cursor))]
  /\ UNCHANGED <<present, query, cursor, objects, prefixes, history>>

\* listObjects refuses a continuation token that does not decode.
refuseToken ==
  /\ client = "ask"
  /\ query.v2 /\ ~IsListToken(cursor)
  /\ Forget

\* The query or the scan fails: the answer is an error, whatever was collected
\* for the page, and the client asks for it again.
failPage ==
  /\ client = "wait"
  /\ Disturb
  /\ client' = "ask"
  /\ scan' = NoScan
  /\ UNCHANGED <<present, query, cursor, objects, prefixes, began, added, removed>>

\* The next row: the least key not scanned yet (ORDER BY key).
NextRow(k) == k \in scan.rest /\ \A j \in scan.rest : j = k \/ Less(k, j)

\* Row k is a new result.
Emits(k) == Rollup(query, k) = <<>> \/ Rollup(query, k) \notin scan.seen

\* rows.Next: a key below a common prefix this page already lists.
rollRow(k) ==
  /\ client = "wait"
  /\ NextRow(k)
  /\ ~Emits(k)
  /\ scan' = [scan EXCEPT !.rest = @ \ {k}, !.next = k]
  /\ UNCHANGED <<present, client, query, cursor, objects, prefixes, history>>

\* The page with row k: the key itself or its common prefix.
WithRow(k) ==
  LET cp == Rollup(query, k) IN
    IF cp = <<>>
      THEN [scan EXCEPT !.rest = @ \ {k}, !.count = @ + 1, !.next = k,
                        !.objects = Append(@, k)]
      ELSE [scan EXCEPT !.rest = @ \ {k}, !.count = @ + 1, !.next = k,
                        !.prefixes = Append(@, cp), !.seen = @ \cup {cp}]

\* A new common prefix that leaves the cursor where it was.
emitRow_prefixNotConsumed(k) ==
  /\ client = "wait"
  /\ NextRow(k)
  /\ Emits(k)
  /\ scan.count < query.maxKeys
  /\ scan' = [WithRow(k) EXCEPT !.next = IF Rollup(query, k) = <<>> THEN @ ELSE scan.next]
  /\ UNCHANGED <<present, client, query, cursor, objects, prefixes, history>>

\* A page that takes one result too many.
emitRow_oneMore(k) ==
  /\ client = "wait"
  /\ NextRow(k)
  /\ Emits(k)
  /\ scan.count <= query.maxKeys
  /\ scan' = WithRow(k)
  /\ UNCHANGED <<present, client, query, cursor, objects, prefixes, history>>

\* rows.Next: a new result that fits into the page.
emitRow(k) ==
  /\ client = "wait"
  /\ NextRow(k)
  /\ Emits(k)
  /\ scan.count < query.maxKeys
  /\ scan' = WithRow(k)
  /\ UNCHANGED <<present, client, query, cursor, objects, prefixes, history>>

\* The answer with the page that was scanned.
Deliver ==
  /\ objects' = objects \o scan.objects
  /\ prefixes' = prefixes \o scan.prefixes
  /\ scan' = NoScan

\* rows.Next: a new result beyond a full page.  The answer is truncated and its
\* cursor is the last key consumed; the client asks for the next page.
truncatePage(k) ==
  /\ client = "wait"
  /\ NextRow(k)
  /\ Emits(k)
  /\ scan.count = query.maxKeys
  /\ client' = "ask"
  /\ cursor' = IF query.v2 THEN encodeListToken(scan.next) ELSE scan.next
  /\ Deliver
  /\ UNCHANGED <<present, query, history>>

\* No row is left: the listing is complete.
lastPage ==
  /\ client = "wait"
  /\ scan.rest = {}
  /\ client' = "done"
  /\ cursor' = <<>>
  /\ Deliver
  /\ UNCHANGED <<present, query, history>>

\* The client is through with a complete listing.
dismiss ==
  /\ client = "done"
  /\ Forget

----------------------------------------------------------------------------
(* Other clients: the commits of ObjectGateway                             *)

createKey(k) ==
  /\ k \notin present
  /\ Disturb
  /\ client \in {"ask", "wait"}
  /\ present' = present \cup {k}
  /\ added' = added \cup {k}
  /\ UNCHANGED <<client, query, cursor, scan, objects, prefixes, began, removed>>

deleteKey(k) ==
  /\ k \in present
  /\ Disturb
  /\ client \in {"ask", "wait"}
  /\ present' = present \ {k}
  /\ removed' = removed \cup {k}
  /\ UNCHANGED <<client, query, cursor, scan, objects, prefixes, began, added>>

Init ==
  /\ present \in SUBSET Keys
  /\ client = "idle"
  /\ query = NoQuery
  /\ cursor = <<>>
  /\ scan = NoScan
  /\ objects = <<>>
  /\ prefixes = <<>>
  /\ began = {}
  /\ added = {}
  /\ removed = {}
  /\ disturbances = 0

\* The steps of a page that is under way.
PageStep ==
  \/ listObjects \/ refuseToken \/ lastPage
  \/ \E k \in Keys : rollRow(k) \/ emitRow(k) \/ truncatePage(k)

Next ==
  \/ \E q \in Queries : Begin(q)
  \/ PageStep \/ failPage \/ dismiss
  \/ \E k \in Keys : createKey(k) \/ deleteKey(k)

Spec == Init /\ [][Next]_vars

\* The server answers, and a client that lists a bucket follows the cursors.
FairSpec == Spec /\ WF_vars(PageStep)

----------------------------------------------------------------------------
(* Properties                                                              *)

\* The keys a listing asks for.
Wanted(k) == HasPrefix(k, query.prefix) /\ (query.start # <<>> => Less(query.start, k))

\* Nothing is listed twice (ListObjectsPage: NextAfter resumes "without
\* duplicating data"): no key ever, and a common prefix only when a key below it
\* was created behind the listing's back.
ListedOnce ==
  /\ IsInjective(objects)
  /\ \A i, j \in DOMAIN prefixes :
       i # j /\ prefixes[i] = prefixes[j] =>
         \E k \in added : Rollup(query, k) = prefixes[i]

\* A listing that ends, over however many pages, has covered every key that was
\* there all the time, itself or by its common prefix; and it names nothing but
\* keys, and prefixes of keys, that it asked for and that were there at some
\* time.
CompleteListing ==
  LET Covers(k) == IF Rollup(query, k) = <<>> THEN k \in Range(objects)
                                              ELSE Rollup(query, k) \in Range(prefixes)
      Ever == {k \in began \cup added : Wanted(k)}
  IN  /\ client = "done" => \A k \in began \ removed : Wanted(k) => Covers(k)
      /\ \A k \in Range(objects) : k \in Ever /\ Rollup(query, k) = <<>>
      /\ \A p \in Range(prefixes) : \E k \in Ever : Rollup(query, k) = p

\* Every listing comes to an end, with its last page or with the refusal of a
\* stray token, whatever the page size and whatever is created and deleted
\* meanwhile.
ListingEnds == client = "ask" ~> client \in {"done", "idle"}
=============================================================================
