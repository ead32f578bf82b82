------------------------------ MODULE Blacklist -----------------------------
(***************************************************************************)
(* Server.Blacklist, the slice of client ids that the blacklist page       *)
(* (dashboard/handlers/blacklist.go) edits and that the broker searches    *)
(* when a client connects.  Nothing protects the slice, so it is modelled  *)
(* as Go lays it out: a header of two words (the array and the length) and *)
(* arrays whose slots are read and written one at a time.                  *)
(*                                                                         *)
(* A process is one admin request or one connecting client.  What two      *)
(* overlapping requests leave in memory is undefined beyond the lost       *)
(* updates that the steps below produce: from then on "raced" holds and    *)
(* nothing is claimed about the list.                                      *)
(***************************************************************************)
EXTENDS Naturals, Sequences, FiniteSets, SequencesExt

CONSTANTS
    Ids,       \* client ids
    Procs,
    Blank,     \* the zero string of an unused slot
    NoId

ASSUME IdAssumption ==
    /\ Blank \notin Ids /\ NoId \notin Ids
    /\ Procs \cap (Ids \X Nat) = {}

VARIABLES
    arrays,    \* the backing arrays allocated so far
    ptr, len,  \* the header: an index of arrays, and the length
    online,    \* Server.Clients: the session of each id, 0 when offline
    gens,      \* sessions each id has had
    at,        \* next step of each process
    id,        \* its client id
    hdr,       \* the header words it has loaded, 0 for one not yet loaded
    pos,       \* the next slot it reads, and for a removal the one it fills
    fill,
    cl,        \* the session it has looked up
    raced,     \* history: two admin requests overlapped
    wanted,    \* history: ids added and not removed since
    settled,   \* history: ids whose Add has returned and that nobody removed
    excused    \* history: processes and sessions that checked during a change

blVars == <<arrays, ptr, len, online, gens, at, id, hdr, pos, fill, cl,
            raced, wanted, settled, excused>>

NoHdr == [ptr |-> 0, len |-> 0, seenLen |-> FALSE]

BlInit ==
    /\ arrays = <<<<>>>> /\ ptr = 1 /\ len = 0
    /\ online = [i \in Ids |-> 0]
    /\ gens = [i \in Ids |-> 0]
    /\ at = [p \in Procs |-> "idle"]
    /\ id = [p \in Procs |-> NoId]
    /\ hdr = [p \in Procs |-> NoHdr]
    /\ pos = [p \in Procs |-> 0] /\ fill = [p \in Procs |-> 0]
    /\ cl = [p \in Procs |-> 0]
    /\ raced = FALSE
    /\ wanted = {} /\ settled = {} /\ excused = {}

(* A slot beyond its array holds nothing that could be relied on.          *)
Slot(a, k) == IF k \in DOMAIN a THEN a[k] ELSE Blank

List == [k \in 1..len |-> Slot(arrays[ptr], k)]

Editing(p) == at[p] \in {"append", "storePtr", "storeLen", "lookup",
                         "disconnect", "shift", "clear", "cut"}
Removing(p) == at[p] \in {"shift", "clear", "cut"}
Checking(p) == at[p] \in {"load", "scan", "admit"}

----------------------------------------------------------------------------
Go(p, l) == at' = [at EXCEPT ![p] = l]

End(p) ==
    /\ Go(p, "idle")
    /\ id' = [id EXCEPT ![p] = NoId]
    /\ hdr' = [hdr EXCEPT ![p] = NoHdr]
    /\ pos' = [pos EXCEPT ![p] = 0] /\ fill' = [fill EXCEPT ![p] = 0]
    /\ cl' = [cl EXCEPT ![p] = 0]

(* A request begins to change the slice.                                   *)
Enters(p) ==
    /\ raced' = (raced \/ \E q \in Procs : q # p /\ Editing(q))
    /\ hdr' = [hdr EXCEPT ![p] = [ptr |-> ptr, len |-> len, seenLen |-> TRUE]]

slice   == <<arrays, ptr, len>>
broker  == <<online, gens>>
history == <<wanted, settled, excused>>

(* BlacklistAdd: slices.Contains.                                          *)
BlacklistAdd(p, i) ==
    /\ at[p] = "idle"
    /\ id' = [id EXCEPT ![p] = i]
    /\ Enters(p)
    /\ Go(p, IF i \in Range(List) THEN "lookup" ELSE "append")
    /\ wanted' = wanted \cup {i}
    /\ UNCHANGED <<slice, broker, pos, fill, cl, settled, excused>>

Grown(c) == IF c = 0 THEN 1 ELSE 2 * c

(* append: into the spare capacity of the array, or into a larger copy.    *)
Append1(p) ==
    /\ at[p] = "append"
    /\ LET h == hdr[p]
           a == arrays[h.ptr] IN
       \/ /\ h.len < Len(a)
          /\ arrays' = [arrays EXCEPT ![h.ptr][h.len + 1] = id[p]]
          /\ Go(p, "storeLen")
          /\ UNCHANGED hdr
       \/ /\ h.len >= Len(a)
          /\ arrays' = Append(arrays, [k \in 1..Grown(h.len) |->
                         CASE k <= h.len -> Slot(a, k)
                           [] k = h.len + 1 -> id[p]
                           [] OTHER -> Blank])
          /\ hdr' = [hdr EXCEPT ![p].ptr = Len(arrays) + 1]
          /\ Go(p, "storePtr")
    /\ UNCHANGED <<ptr, len, broker, id, pos, fill, cl, raced, history>>

(* Whoever is checking while an id enters the list may still be admitted.  *)
NowListed(i) == excused' = excused \cup {p \in Procs : Checking(p) /\ id[p] = i}

(* The store of the new header is two stores, in either order.             *)
StorePtr(p) ==
    /\ at[p] = "storePtr"
    /\ ptr' = hdr[p].ptr
    /\ IF len = hdr[p].len + 1
       THEN Go(p, "lookup")
       ELSE Go(p, "storeLen")
    /\ NowListed(id[p])
    /\ UNCHANGED <<arrays, len, broker, id, hdr, pos, fill, cl, raced, wanted,
                   settled>>

StoreLen(p) ==
    /\ \/ at[p] = "storeLen" /\ Go(p, "lookup")
       \/ at[p] = "storePtr" /\ len # hdr[p].len + 1 /\ UNCHANGED at
    /\ len' = hdr[p].len + 1
    /\ NowListed(id[p])
    /\ UNCHANGED <<arrays, ptr, broker, id, hdr, pos, fill, cl, raced, wanted,
                   settled>>

AddLookupSkipped(p) ==
    /\ at[p] = "lookup"
    /\ Go(p, "disconnect")
    /\ UNCHANGED <<slice, broker, id, hdr, pos, fill, cl, raced, history>>

(* Clients.Get ...                                                         *)
AddLookup(p) ==
    /\ at[p] = "lookup"
    /\ cl' = [cl EXCEPT ![p] = online[id[p]]]
    /\ Go(p, "disconnect")
    /\ UNCHANGED <<slice, broker, id, hdr, pos, fill, raced, history>>

(* The broker ends the session that was looked up, if it is still there.   *)
DisconnectClient(p) ==
    online' = [online EXCEPT ![id[p]] = IF @ = cl[p] THEN 0 ELSE @]

(* ... and DisconnectClient of the session that was found.                 *)
AddDisconnect(p) ==
    /\ at[p] = "disconnect"
    /\ DisconnectClient(p)
    /\ settled' = settled \cup {id[p]}
    /\ End(p)
    /\ UNCHANGED <<slice, gens, raced, wanted, excused>>

----------------------------------------------------------------------------
(* BlacklistRemove: slices.DeleteFunc looks for the first match.  Without  *)
(* one it returns the slice as it was, and that header is stored back.     *)
BlacklistRemove(p, i) ==
    /\ at[p] = "idle"
    /\ id' = [id EXCEPT ![p] = i]
    /\ Enters(p)
    /\ LET first == SelectInSeq(List, LAMBDA x : x = i) IN
       \/ first = 0 /\ Go(p, "cut") /\ pos' = [pos EXCEPT ![p] = len + 1]
                                    /\ fill' = [fill EXCEPT ![p] = len + 1]
       \/ /\ first # 0
          /\ Go(p, "shift")
          /\ fill' = [fill EXCEPT ![p] = first]
          /\ pos' = [pos EXCEPT ![p] = first + 1]
    /\ wanted' = wanted \ {i} /\ settled' = settled \ {i}
    /\ excused' = excused \cup {q \in Procs : Checking(q)}
    /\ UNCHANGED <<slice, broker, cl>>

(* The loop moves one element down at a time, in place.                    *)
Shift(p) ==
    /\ at[p] = "shift"
    /\ \/ /\ pos[p] > hdr[p].len
          /\ Go(p, "clear")
          /\ UNCHANGED <<arrays, pos, fill>>
       \/ /\ pos[p] <= hdr[p].len
          /\ LET v == Slot(arrays[hdr[p].ptr], pos[p]) IN
             IF v = id[p]
             THEN UNCHANGED <<arrays, fill>>
             ELSE /\ arrays' = [arrays EXCEPT ![hdr[p].ptr][fill[p]] = v]
                  /\ fill' = [fill EXCEPT ![p] = @ + 1]
          /\ pos' = [pos EXCEPT ![p] = @ + 1]
          /\ UNCHANGED at
    /\ UNCHANGED <<ptr, len, broker, id, hdr, cl, raced, history>>

(* clear(s[i:])                                                            *)
ClearTail(p) ==
    /\ at[p] = "clear"
    /\ arrays' = [arrays EXCEPT ![hdr[p].ptr] =
                    [k \in DOMAIN @ |->
                       IF k \in fill[p]..hdr[p].len THEN Blank ELSE @[k]]]
    /\ Go(p, "cut")
    /\ UNCHANGED <<ptr, len, broker, id, hdr, pos, fill, cl, raced, history>>

CutKeepingLength(p) ==
    /\ at[p] = "cut"
    /\ End(p)
    /\ UNCHANGED <<slice, broker, raced, history>>

(* The shorter header is stored; its array is the one it was loaded with.  *)
Cut(p) ==
    /\ at[p] = "cut"
    /\ ptr' = hdr[p].ptr
    /\ len' = fill[p] - 1
    /\ End(p)
    /\ UNCHANGED <<arrays, broker, raced, history>>

----------------------------------------------------------------------------
(* The broker admits a client: it loads the two words of the header, in    *)
(* either order, and compares the slots one by one.                        *)
Connect(p, i) ==
    /\ at[p] = "idle"
    /\ Go(p, "load")
    /\ id' = [id EXCEPT ![p] = i]
    /\ pos' = [pos EXCEPT ![p] = 1]
    /\ excused' = (excused \ {p}) \cup {q \in {p} : \E r \in Procs : Removing(r)}
    /\ UNCHANGED <<slice, broker, hdr, fill, cl, raced, wanted, settled>>

LoadWord(p) ==
    /\ at[p] = "load"
    /\ \/ /\ hdr[p].ptr = 0
          /\ hdr' = [hdr EXCEPT ![p].ptr = ptr]
          /\ IF hdr[p].seenLen THEN Go(p, "scan") ELSE UNCHANGED at
       \/ /\ ~hdr[p].seenLen
          /\ hdr' = [hdr EXCEPT ![p].len = len, ![p].seenLen = TRUE]
          /\ IF hdr[p].ptr # 0 THEN Go(p, "scan") ELSE UNCHANGED at
    /\ UNCHANGED <<slice, broker, id, pos, fill, cl, raced, history>>

(* A slot beyond the array (words of two different headers) may look like  *)
(* anything.                                                               *)
Scan(p) ==
    /\ at[p] = "scan"
    /\ LET a == arrays[hdr[p].ptr] IN
       \/ pos[p] > hdr[p].len /\ Go(p, "admit") /\ UNCHANGED <<id, hdr, pos, fill, cl>>
       \/ /\ pos[p] <= hdr[p].len
          /\ pos[p] > Len(a) \/ Slot(a, pos[p]) = id[p]
          /\ End(p)
       \/ /\ pos[p] <= hdr[p].len
          /\ Slot(a, pos[p]) # id[p]
          /\ pos' = [pos EXCEPT ![p] = @ + 1]
          /\ UNCHANGED <<at, id, hdr, fill, cl>>
    /\ UNCHANGED <<slice, broker, raced, history>>

(* The session replaces an older one of the same id.                       *)
Admit(p) ==
    /\ at[p] = "admit"
    /\ LET i == id[p]
           g == gens[i] + 1 IN
       /\ gens' = [gens EXCEPT ![i] = g]
       /\ online' = [online EXCEPT ![i] = g]
       /\ excused' = (excused \ {p}) \cup {s \in {<<i, g>>} : p \in excused}
    /\ End(p)
    /\ UNCHANGED <<slice, raced, wanted, settled>>

(* Every step of a request or a check but the last one of a check.         *)
BlEdit(p) ==
    \/ Append1(p) \/ StorePtr(p) \/ StoreLen(p) \/ AddLookup(p) \/ AddDisconnect(p)
    \/ Shift(p) \/ ClearTail(p) \/ Cut(p)
    \/ LoadWord(p) \/ Scan(p)

----------------------------------------------------------------------------
(* Properties.                                                             *)

(* While admin requests do not overlap, the list holds exactly the ids     *)
(* that were added and not removed since, each of them once: through the   *)
(* in-place shift of a removal, and through appends that reuse or replace  *)
(* the array.                                                              *)
BlacklistExact ==
    ~raced /\ (\A p \in Procs : ~Editing(p)) =>
        Range(List) = wanted /\ len = Cardinality(wanted)

(* "Adds the client_id to the blacklist and disconnects them if currently  *)
(* connected": once Add has returned, no session of the id is left, however*)
(* the connection attempts, their two loads of the header and their scans  *)
(* fall between the steps of this and of other additions.  Excused are the *)
(* sessions whose check was under way when the id entered the list, or     *)
(* that overlapped a removal, which shifts other ids past the scan.        *)
BlacklistedStaysOut ==
    ~raced => \A i \in settled : online[i] # 0 => <<i, online[i]>> \in excused
============================================================================
