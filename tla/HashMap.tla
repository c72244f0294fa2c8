------------------------------ MODULE HashMap ------------------------------
(***************************************************************************)
(* hmap_t<int> of core/ax_hashmap.h, which holds the timers by handle, the *)
(* pending reactors by fd and the clients by hid: a table of doubly linked *)
(* buckets, and one doubly linked list through all the entries, which is   *)
(* used for iteration and as an LRU queue.                                 *)
(*                                                                         *)
(* An entry is a number, its fields a record.  insert does not look for    *)
(* the key, so a key may have several entries.  What the list should be is *)
(* kept beside it in order.                                                *)
(***************************************************************************)
EXTENDS Integers, Sequences, SequencesExt

CONSTANTS
  Keys,        \* non-negative keys: do_hash is the identity on them
  Slots,       \* values of nslot_
  MaxEntries   \* bound on the live entries

VARIABLES
  table_, link_head_, size_,
  entries,     \* the live hmap_entry_t, by number
  order        \* the entries as they were attached, the latest first

hmapVars == <<table_, link_head_, size_, entries, order>>

NULL == 0

nslot_ == Len(table_)

HashSlot(k, n) == (k % n) + 1

EmptyTable(n) == [s \in 1 .. n |-> NULL]

HmapInit ==
  /\ \E n \in Slots : table_ = EmptyTable(n)
  /\ link_head_ = NULL /\ size_ = 0
  /\ entries = <<>> /\ order = <<>>

(* p->f = v, unless p is NULL.                                             *)
Assign(ents, p, f, v) == IF p = NULL THEN ents ELSE [ents EXCEPT ![p][f] = v]

(* attach_link_head                                                        *)
AttachLink(ents, head, e) ==
  Assign(Assign(Assign(ents, e, "link_prev", NULL), e, "link_next", head), head, "link_prev", e)

(* Mutant of DetachLink: the next entry keeps pointing back.               *)
BugDetachLink(ents, e) ==
  Assign(Assign(Assign(ents, ents[e].link_prev, "link_next", ents[e].link_next),
      e, "link_next", NULL), e, "link_prev", NULL)

(* detach_link; the head moves on with HeadWithout.                        *)
DetachLink(ents, e) ==
  LET p == ents[e].link_prev
      q == ents[e].link_next
  IN  Assign(Assign(Assign(Assign(ents, p, "link_next", q), q, "link_prev", p),
          e, "link_next", NULL), e, "link_prev", NULL)

HeadWithout(e) == IF link_head_ = e THEN entries[e].link_next ELSE link_head_

(* An entry at the head of its bucket, as insert and rehash put it there.  *)
BucketPush(ents, head, e) ==
  Assign(Assign(Assign(ents, head, "prev", e), e, "next", head), e, "prev", NULL)

HmapInsert(key) ==
  LET e == CHOOSE i \in 1 .. MaxEntries : i \notin DOMAIN entries
      s == HashSlot(key, nslot_)
      new == [key |-> key, next |-> NULL, prev |-> NULL, link_next |-> NULL, link_prev |-> NULL]
      all == [i \in DOMAIN entries \cup {e} |-> IF i = e THEN new ELSE entries[i]]
  IN  /\ size_ < MaxEntries
      /\ entries' = AttachLink(BucketPush(all, table_[s], e), link_head_, e)
      /\ table_' = [table_ EXCEPT ![s] = e]
      /\ link_head_' = e
      /\ size_' = size_ + 1
      /\ order' = <<e>> \o order

(* The first MaxEntries + 1 entries of the list that starts at p.          *)
HmapWalk(ents, f, p) ==
  LET at[i \in 1 .. MaxEntries + 1] ==
        IF i = 1 THEN p ELSE IF at[i - 1] = NULL THEN NULL ELSE ents[at[i - 1]][f]
  IN  SelectSeq(at, LAMBDA x : x # NULL)

(* find: the first entry of the key in its bucket.                         *)
HmapFind(key) ==
  LET hits == SelectSeq(HmapWalk(entries, "next", table_[HashSlot(key, nslot_)]),
                        LAMBDA e : entries[e].key = key)
  IN  IF hits = <<>> THEN NULL ELSE hits[1]

(* detach, the bucket list.                                                *)
Unbucket(e) ==
  LET p == entries[e].prev
      q == entries[e].next
      s == HashSlot(entries[e].key, nslot_)
  IN  [ents |-> Assign(Assign(entries, p, "next", q), q, "prev", p),
       table |-> IF table_[s] = e THEN [table_ EXCEPT ![s] = q] ELSE table_]

(* remove: detach from both lists and delete.                              *)
HmapRemove(e) ==
  LET ents == DetachLink(Unbucket(e).ents, e)
  IN  /\ table_' = Unbucket(e).table
      /\ link_head_' = HeadWithout(e)
      /\ entries' = [i \in DOMAIN entries \ {e} |-> ents[i]]
      /\ size_' = size_ - 1
      /\ order' = SelectSeq(order, LAMBDA i : i # e)

HmapRemoveGet(key) == HmapFind(key) # NULL /\ HmapRemove(HmapFind(key))

(* remove_all removes the head until there is none.                        *)
HmapRemoveAll ==
  /\ table_' = EmptyTable(nslot_)
  /\ link_head_' = NULL /\ size_' = 0
  /\ entries' = <<>> /\ order' = <<>>

(* The loop of rehash, over the list.                                      *)
Rehashed(n) ==
  FoldLeft(LAMBDA c, e :
             LET s == HashSlot(entries[e].key, n)
             IN  [ents |-> BucketPush(c.ents, c.table[s], e),
                  table |-> [c.table EXCEPT ![s] = e]],
           [ents |-> entries, table |-> EmptyTable(n)],
           HmapWalk(entries, "link_next", link_head_))

HmapRehash(n) ==
  /\ entries' = Rehashed(n).ents
  /\ table_' = Rehashed(n).table
  /\ UNCHANGED <<link_head_, size_, order>>

(* The LRU use: find, detach_link, attach_link_head.                       *)
MoveToHead(key) ==
  LET e == HmapFind(key)
      head == HeadWithout(e)
  IN  /\ e # NULL
      /\ entries' = AttachLink(DetachLink(entries, e), head, e)
      /\ link_head_' = e
      /\ order' = <<e>> \o SelectSeq(order, LAMBDA i : i # e)
      /\ UNCHANGED <<table_, size_>>

HmapNext ==
  \/ \E k \in Keys : HmapInsert(k) \/ HmapRemoveGet(k) \/ MoveToHead(k)
  \/ \E e \in DOMAIN entries : HmapRemove(e)
  \/ HmapRemoveAll
  \/ \E n \in Slots : HmapRehash(n)

HmapSpec == HmapInit /\ [][HmapNext]_hmapVars

-----------------------------------------------------------------------------
(* A list from head through next, with prev pointing back along it.        *)
Linked(seq, prev) ==
  \A i \in DOMAIN seq : entries[seq[i]][prev] = IF i = 1 THEN NULL ELSE seq[i - 1]

(* The two views of the map agree, whatever was inserted, removed from the *)
(* middle, moved to the head or rehashed in between: iterating from head() *)
(* visits every entry once, the latest attached first, and size() is their *)
(* number; each entry is in exactly one bucket, the one its key hashes to  *)
(* for the current nslot_, and can be taken out of the middle of both; and *)
(* find reaches every key.                                                 *)
ViewsAgree ==
  LET all == HmapWalk(entries, "link_next", link_head_)
      Bucket(s) == HmapWalk(entries, "next", table_[s])
  IN  /\ all = order /\ Len(all) = size_ /\ Linked(all, "link_prev")
      /\ \A s \in 1 .. nslot_ :
           /\ IsInjective(Bucket(s)) /\ Linked(Bucket(s), "prev")
           /\ ToSet(Bucket(s)) = {e \in DOMAIN entries : HashSlot(entries[e].key, nslot_) = s}
      /\ \A e \in DOMAIN entries : HmapFind(entries[e].key) # NULL
=============================================================================
