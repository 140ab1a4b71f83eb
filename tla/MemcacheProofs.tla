--------------------------- MODULE MemcacheProofs ---------------------------
(* Theorems about Memcache, for any objects, domains and keys.              *)
EXTENDS Memcache, TLAPS

\* A value is under the name that its writer's domain and key spell.
StoredInPlace ==
  \A name \in Names : store[name] \in ValuesOf(name) \cup {Unknown, None}

IInv ==
  /\ MemcacheTypeOK /\ OwnClient /\ StoredInPlace
  /\ DomainsKeepApart

-----------------------------------------------------------------------------
(* Calls.                                                                   *)

LEMMA LiveClient ==
  ASSUME MemcacheTypeOK, NEW o \in objects
  PROVE  client \in Client /\ objects # {}
  BY DEF MemcacheTypeOK

LEMMA FreshIsClient == Fresh \in Client
  BY DEF Fresh, Client, Prefixes

\* A domain and a key spell a name of the servers.
LEMMA NameOf ==
  ASSUME NEW p \in Prefixes, NEW k \in Keys
  PROVE  p \o k \in Names
  BY DEF Names

\* A method that changes the client changes the caller's in the same way.
LEMMA ChangeStep ==
  ASSUME IInv, NEW o \in Objects, Call(o), UNCHANGED store,
         NEW c \in Client, client' = c,
         NEW m, Own(o, Meant(o, m)),
         Undisturbed(o) => m = c
  PROVE  IInv'
<1>1. objects # {} /\ o \in objects /\ objects' = objects /\ misused = None /\ misused' = None
  BY DEF Call, Runs
<1>2. mine' \in [Objects -> Client \cup {None}]
  <2>1. Meant(o, m) \in Client \cup {None}
    BY DEF Meant
  <2> QED
    BY <2>1 DEF Own
<1>3. MemcacheTypeOK'
  BY <1>1, <1>2, NoneAssumption DEF IInv, MemcacheTypeOK, Call
<1>4. OwnClient'
  BY DEF IInv, OwnClient, Own, Meant, Undisturbed
<1>5. StoredInPlace' /\ DomainsKeepApart'
  BY <1>1 DEF IInv, StoredInPlace, DomainsKeepApart, Call
<1> QED
  BY <1>3, <1>4, <1>5 DEF IInv

\* A method that only writes to the servers, in the place of its client.
LEMMA StoreStep ==
  ASSUME IInv, NEW o \in Objects, Call(o), UNCHANGED <<client, mine>>,
         store' \in [Names -> Value \cup {None, Unknown}],
         StoredInPlace'
  PROVE  IInv'
<1>1. MemcacheTypeOK'
  BY DEF IInv, MemcacheTypeOK, Call
<1>2. OwnClient' /\ DomainsKeepApart'
  BY DEF IInv, OwnClient, DomainsKeepApart, Call, Undisturbed, Runs
<1> QED
  BY <1>1, <1>2 DEF IInv

LEMMA InitInv == MemcacheInit => IInv
  BY NoneAssumption
  DEF MemcacheInit, IInv, MemcacheTypeOK, OwnClient, StoredInPlace, DomainsKeepApart,
      Undisturbed, Prefixes

LEMMA NewStep ==
  ASSUME IInv, NEW o \in Objects, NewMemcache(o)
  PROVE  IInv'
<1>1. MemcacheTypeOK'
  BY FreshIsClient, NoneAssumption DEF IInv, MemcacheTypeOK, NewMemcache, Own, Runs
<1>2. OwnClient' /\ StoredInPlace'
  BY DEF IInv, OwnClient, StoredInPlace, NewMemcache, Own, Undisturbed
<1>3. DomainsKeepApart'
  BY DEF NewMemcache, Runs, DomainsKeepApart
<1> QED
  BY <1>1, <1>2, <1>3 DEF IInv

LEMMA ClientStep ==
  ASSUME IInv, NEW o \in Objects,
         Reset(o) \/ ClearDomainKey(o) \/ AddServer(o) \/ \E d \in Domains : SetDomainKey(o, d)
  PROVE  IInv'
<1> USE DEF Client, Prefixes
<1>1. o \in objects /\ Call(o)
  BY DEF Reset, ClearDomainKey, AddServer, SetDomainKey, Call
<1>2. client \in Client
  BY <1>1, LiveClient DEF IInv
<1>3. Undisturbed(o) => client = mine[o]
  BY DEF IInv, OwnClient
<1>4. CASE Reset(o)
  <2>1. [client EXCEPT !.live = FALSE] \in Client
    BY <1>2
  <2> QED
    BY <1>1, <2>1, <1>3, <1>4, ChangeStep DEF Reset
<1>5. CASE ClearDomainKey(o)
  BY <1>1, <1>2, <1>3, <1>5, ChangeStep DEF ClearDomainKey
<1>6. CASE AddServer(o)
  <2>1. [client EXCEPT !.servers = TRUE] \in Client
    BY <1>2
  <2> QED
    BY <1>1, <2>1, <1>3, <1>6, ChangeStep DEF AddServer
<1>7. CASE \E d \in Domains : SetDomainKey(o, d)
  BY <1>1, <1>2, <1>3, <1>7, ChangeStep DEF SetDomainKey
<1> QED
  BY <1>4, <1>5, <1>6, <1>7

\* Set, Replace and Add.
LEMMA WriteStep ==
  ASSUME IInv, NEW o \in Objects, NEW k \in Keys, NEW condition, Store(o, k, condition)
  PROVE  IInv'
<1>1. Call(o) /\ UNCHANGED <<client, mine>> /\ client \in Client
  BY LiveClient DEF Store, Served, Call, IInv
<1>2. client.domain \in Prefixes
  BY <1>1 DEF Client
<1>3. Slot(k) \in Names
  BY <1>2, NameOf DEF Slot
<1>4. Origin(o, k) \in ValuesOf(Slot(k)) \cup {Unknown}
  BY <1>2 DEF IInv, OwnClient, Origin, ValuesOf, Value, Slot
<1>5. store' = [store EXCEPT ![Slot(k)] = Origin(o, k)]
  BY DEF Store
<1>6. store' \in [Names -> Value \cup {None, Unknown}]
  BY <1>3, <1>4, <1>5 DEF IInv, MemcacheTypeOK, ValuesOf
<1>7. StoredInPlace'
  BY <1>3, <1>4, <1>5 DEF IInv, MemcacheTypeOK, StoredInPlace
<1> QED
  BY <1>1, <1>6, <1>7, StoreStep

LEMMA DropStep ==
  ASSUME IInv, NEW o \in Objects, Flush(o) \/ \E k \in Keys : Del(o, k)
  PROVE  IInv'
<1>1. Call(o) /\ UNCHANGED <<client, mine>>
  BY DEF Flush, Del, Served
<1>2. \/ store' = [name \in Names |-> None]
      \/ \E name : store' = [store EXCEPT ![name] = None]
  BY DEF Flush, Del
<1>3. store' \in [Names -> Value \cup {None, Unknown}]
  BY <1>2 DEF IInv, MemcacheTypeOK
<1>4. StoredInPlace'
  BY <1>2 DEF IInv, MemcacheTypeOK, StoredInPlace
<1> QED
  BY <1>1, <1>3, <1>4, StoreStep

LEMMA GetStep ==
  ASSUME IInv, NEW o \in Objects, NEW k \in Keys, Get(o, k)
  PROVE  IInv'
<1>1. client \in Client
  BY LiveClient DEF Get, IInv
<1>2. client.domain \in Prefixes
  BY <1>1 DEF Client
<1>3. Slot(k) \in Names
  BY <1>2, NameOf DEF Slot
<1>4. store[Slot(k)] \in ValuesOf(Slot(k)) \cup {Unknown, None}
  BY <1>3 DEF IInv, StoredInPlace
<1>5. MemcacheTypeOK'
  BY <1>4 DEF IInv, MemcacheTypeOK, Get, Answer, ValuesOf
<1>6. OwnClient' /\ StoredInPlace'
  BY DEF IInv, OwnClient, StoredInPlace, Get, Undisturbed
<1>7. DomainsKeepApart'
  <2> SUFFICES ASSUME store[Slot(k)] # None, Undisturbed(o)
               PROVE  store[Slot(k)] \in ValuesOf(mine[o].domain \o k) \cup {Unknown}
    BY DEF Get, DomainsKeepApart, Undisturbed
  <2> QED
    BY <1>4 DEF IInv, OwnClient, Slot
<1> QED
  BY <1>5, <1>6, <1>7 DEF IInv

LEMMA OtherStep ==
  ASSUME IInv,
         \/ \E o \in Objects : ChangesNothing(o) \/ Misuse(o)
         \/ \E name \in Names : Evict(name)
         \/ UNCHANGED memcacheVars
  PROVE  IInv'
<1>1. CASE \E o \in Objects : ChangesNothing(o)
  <2> PICK o \in Objects : ChangesNothing(o)
    BY <1>1
  <2>1. store' \in [Names -> Value \cup {None, Unknown}] /\ StoredInPlace'
    BY DEF ChangesNothing, IInv, MemcacheTypeOK, StoredInPlace
  <2> QED
    BY <2>1, StoreStep DEF ChangesNothing
<1>2. CASE \E o \in Objects : Misuse(o)
  BY <1>2 DEF Misuse, IInv, MemcacheTypeOK, OwnClient, StoredInPlace, DomainsKeepApart,
     Undisturbed
<1>3. CASE \E name \in Names : Evict(name)
  <2> PICK name \in Names : Evict(name)
    BY <1>3
  <2>1. store' = [store EXCEPT ![name] = None]
    BY DEF Evict
  <2>2. MemcacheTypeOK'
    BY <2>1 DEF Evict, IInv, MemcacheTypeOK
  <2>3. StoredInPlace'
    BY <2>1 DEF IInv, MemcacheTypeOK, StoredInPlace
  <2> QED
    BY <2>2, <2>3 DEF Evict, IInv, OwnClient, DomainsKeepApart, Undisturbed
<1>4. CASE UNCHANGED memcacheVars
  BY <1>4 DEF memcacheVars, IInv, MemcacheTypeOK, OwnClient, StoredInPlace, DomainsKeepApart,
     Undisturbed
<1> QED
  BY <1>1, <1>2, <1>3, <1>4

LEMMA Invariance == MemcacheSpec => []IInv
<1>1. MemcacheInit => IInv
  BY InitInv
<1>2. IInv /\ [MemcacheNext]_memcacheVars => IInv'
  <2> SUFFICES ASSUME IInv, [MemcacheNext]_memcacheVars PROVE IInv'
    OBVIOUS
  <2>1. ASSUME NEW o \in Objects, ObjectStep(o) PROVE IInv'
    BY <2>1, NewStep, ClientStep, WriteStep, DropStep, GetStep, OtherStep
    DEF ObjectStep, Set, Replace, Add
  <2> QED
    BY <2>1, OtherStep DEF MemcacheNext
<1> QED
  BY <1>1, <1>2, PTL DEF MemcacheSpec

-----------------------------------------------------------------------------
(* Theorems.                                                                *)

\* The variables keep their types; while there are objects, `client' is not NULL.
THEOREM TypeCorrect == MemcacheSpec => []MemcacheTypeOK
  BY Invariance, PTL DEF IInv

\* The newest object works on a client of its own until another one is made or
\* changes it.
THEOREM ClientIsOwn == MemcacheSpec => []OwnClient
  BY Invariance, PTL DEF IInv

\* An undisturbed object is shown only values whose domain and key, written
\* together, are its own domain and the key it asked for.
THEOREM DomainsAreApart == MemcacheSpec => []DomainsKeepApart
  BY Invariance, PTL DEF IInv
=============================================================================
