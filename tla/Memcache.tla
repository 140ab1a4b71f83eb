------------------------------ MODULE Memcache ------------------------------
(***************************************************************************)
(* The objects a script gets from modules/Memcache/memcache.cpp.  They have *)
(* no state of their own: every method works on the one global `client' of  *)
(* memcache.h:25.  So `new' takes the client of every other object away,    *)
(* reset frees it for all of them and leaves the pointer as it is, and the  *)
(* domain one object sets is the prefix of the keys of all.                 *)
(*                                                                          *)
(* libmemcached and the servers are external.  The servers know a value by   *)
(* one name, the domain and the key written one after the other with nothing *)
(* between them, so that two domains can meet on one name.  Of a stored      *)
(* value there is only its origin: the domain and the key its writer meant.  *)
(* Expiry times and flags are left out: line 126 throws when they are passed.*)
(***************************************************************************)
EXTENDS Sequences

CONSTANTS
  Objects,    \* objects a script makes
  Domains,    \* domain keys, as sequences of characters
  Keys,       \* keys, as sequences of characters
  Unknown,    \* the origin of a value whose writer another object disturbed
  None        \* no pointer, no value, no object

NoDomain == <<>>   \* a client without a prefix
Prefixes == Domains \cup {NoDomain}
Client == [live : BOOLEAN, domain : Prefixes, servers : BOOLEAN]

Names == UNION {{p \o k : k \in Keys} : p \in Prefixes}   \* what the servers see
Value == [domain : Prefixes, key : Keys]
Answer == [by : Objects, key : Keys, origin : Value \cup {Unknown}]

ASSUME NoneAssumption == None \notin Objects \cup Client \cup Value \cup Answer

VARIABLES
  client,    \* the global: None (NULL) or what it points at
  store,     \* the servers: for each name, the origin of the value
  objects,   \* objects that were made
  misused,   \* the object through which freed memory was passed to libmemcached
  answer,    \* what the last call returned, or None
  mine       \* history: what the client of an object would be had no other
             \* object changed it since, or None if one has

memcacheVars == <<client, store, objects, misused, answer, mine>>

Fresh == [live |-> TRUE, domain |-> NoDomain, servers |-> FALSE]

MemcacheTypeOK ==
  /\ client \in Client \cup {None} /\ (client = None => objects = {})
  /\ store \in [Names -> Value \cup {None, Unknown}]
  /\ objects \subseteq Objects
  /\ misused \in Objects \cup {None}
  /\ answer \in Answer \cup {None}
  /\ mine \in [Objects -> Client \cup {None}]

MemcacheInit ==
  /\ client = None
  /\ store = [name \in Names |-> None]
  /\ objects = {} /\ misused = None /\ answer = None
  /\ mine = [o \in Objects |-> None]

-----------------------------------------------------------------------------
(* Calls.                                                                   *)

\* After a use of freed memory anything may happen: the model ends there.
Runs == misused = None

Undisturbed(o) == mine[o] # None

\* Object o means its client to be `meant'; the others lose theirs.
Own(o, meant) ==
  mine' = [p \in Objects |-> IF p = o THEN meant ELSE None]

Meant(o, changed) == IF Undisturbed(o) THEN changed ELSE None

\* a call through o that libmemcached is given a live client for
Call(o) == Runs /\ o \in objects /\ client.live /\ answer' = None /\ UNCHANGED <<objects, misused>>

\* A call through o that passes the freed client; every method is one.
Misuse(o) ==
  /\ Runs /\ o \in objects /\ ~client.live
  /\ misused' = o
  /\ UNCHANGED <<client, store, objects, answer, mine>>

BadNewMemcache(o) ==
  /\ Runs /\ o \notin objects
  /\ client' = IF client = None THEN Fresh ELSE client
  /\ objects' = objects \cup {o} /\ Own(o, Fresh)
  /\ answer' = None /\ UNCHANGED <<store, misused>>

\* lines 21-26: the client before is not freed
NewMemcache(o) ==
  /\ Runs /\ o \notin objects
  /\ client' = Fresh
  /\ objects' = objects \cup {o} /\ Own(o, Fresh)
  /\ answer' = None /\ UNCHANGED <<store, misused>>

BadReset(o) ==
  /\ Call(o)
  /\ client' = None
  /\ Own(o, Meant(o, [mine[o] EXCEPT !.live = FALSE])) /\ UNCHANGED store

\* lines 28-36: the pointer is kept
Reset(o) ==
  /\ Call(o)
  /\ client' = [client EXCEPT !.live = FALSE]
  /\ Own(o, Meant(o, [mine[o] EXCEPT !.live = FALSE])) /\ UNCHANGED store

\* lines 38-51; a key that is refused throws and changes nothing
SetDomainKey(o, d) ==
  /\ Call(o)
  /\ client' = [client EXCEPT !.domain = d]
  /\ Own(o, Meant(o, [mine[o] EXCEPT !.domain = d])) /\ UNCHANGED store

BadClearDomainKey(o) ==
  /\ Call(o)
  /\ Own(o, Meant(o, [mine[o] EXCEPT !.domain = NoDomain])) /\ UNCHANGED <<client, store>>

\* lines 66-75
ClearDomainKey(o) ==
  /\ Call(o)
  /\ client' = [client EXCEPT !.domain = NoDomain]
  /\ Own(o, Meant(o, [mine[o] EXCEPT !.domain = NoDomain])) /\ UNCHANGED store

\* lines 84-98 with a host and a port, and a weight or not
AddServer(o) ==
  /\ Call(o)
  /\ client' = [client EXCEPT !.servers = TRUE]
  /\ Own(o, Meant(o, [mine[o] EXCEPT !.servers = TRUE])) /\ UNCHANGED store

\* A call that changes nothing here: getDomainKey, one that throws, and
\* addServer with other arguments, which adds nothing and looks at an `rc' that
\* was never assigned (line 100), so that it may return as if it had.
ChangesNothing(o) == Call(o) /\ UNCHANGED <<client, store, mine>>

-----------------------------------------------------------------------------
(* Values.                                                                  *)

Served(o) == Call(o) /\ client.servers /\ UNCHANGED <<client, mine>>
Slot(k) == client.domain \o k
Origin(o, k) ==
  IF Undisturbed(o) THEN [domain |-> mine[o].domain, key |-> k] ELSE Unknown

\* set (line 159), replace (202) and add (247): the last two only when there is
\* or is not a value, and throw otherwise
Store(o, k, condition) ==
  /\ Served(o)
  /\ condition
  /\ store' = [store EXCEPT ![Slot(k)] = Origin(o, k)]

Set(o, k) == Store(o, k, TRUE)
Replace(o, k) == Store(o, k, store[Slot(k)] # None)
Add(o, k) == Store(o, k, store[Slot(k)] = None)

\* line 266
Del(o, k) ==
  /\ Served(o)
  /\ store[Slot(k)] # None
  /\ store' = [store EXCEPT ![Slot(k)] = None]

\* lines 106-121: flush empties the servers, for every domain
Flush(o) == Served(o) /\ store' = [name \in Names |-> None]

\* lines 274-296: undefined when there is no value
Get(o, k) ==
  /\ Runs /\ o \in objects /\ client.live /\ client.servers
  /\ answer' = IF store[Slot(k)] = None THEN None
               ELSE [by |-> o, key |-> k, origin |-> store[Slot(k)]]
  /\ UNCHANGED <<client, store, objects, misused, mine>>

\* memcached drops a value when it needs the room
Evict(name) ==
  /\ store[name] # None
  /\ store' = [store EXCEPT ![name] = None]
  /\ answer' = None /\ UNCHANGED <<client, objects, misused, mine>>

ObjectStep(o) ==
  \/ NewMemcache(o) \/ Reset(o) \/ ClearDomainKey(o) \/ AddServer(o)
  \/ ChangesNothing(o) \/ Misuse(o) \/ Flush(o)
  \/ \E d \in Domains : SetDomainKey(o, d)
  \/ \E k \in Keys : Set(o, k) \/ Replace(o, k) \/ Add(o, k) \/ Del(o, k) \/ Get(o, k)

MemcacheNext ==
  \/ \E o \in Objects : ObjectStep(o)
  \/ \E name \in Names : Evict(name)

MemcacheSpec == MemcacheInit /\ [][MemcacheNext]_memcacheVars

-----------------------------------------------------------------------------
(* Properties.                                                              *)

\* The object that was made last works as if the global client were its own:
\* until another one is made or changes it, the client is alive, has the domain
\* and the servers that the object's own calls gave it, and nothing else.
OwnClient == \A o \in Objects : Undisturbed(o) => client = mine[o]

\* Domains keep values apart as far as the joined names can tell: an object that
\* nobody disturbed is shown what another one stored only if the domain and the
\* key of the one, written together, are the domain and the key of the other.
\* So under one key two domains never meet, whatever was set, cleared or reset
\* before; under two keys they do, when the names come out the same (lines 45,
\* 159, 283).
ValuesOf(name) == {v \in Value : v.domain \o v.key = name}

DomainsKeepApart ==
  answer # None /\ Undisturbed(answer.by) =>
    answer.origin \in ValuesOf(mine[answer.by].domain \o answer.key) \cup {Unknown}
=============================================================================
