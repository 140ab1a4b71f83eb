---------------------------- MODULE MCExtensions ----------------------------
(* A script that loads one of the two extension modules of src/modules:     *)
(* Mysql or Memcache.  They share nothing.                                  *)
EXTENDS Mysql, Memcache

\* results: none, full ones, and NULLs in text and in numbers
MCTables ==
  {[cols |-> <<"text", "number">>, rows |-> n, nulls |-> {}] : n \in {0, 2}} \cup
  {[cols |-> <<"number", "text">>, rows |-> 2, nulls |-> nulls] :
     nulls \in {{<<2, 2>>}, {<<2, 1>>}}} \cup
  {[cols |-> <<"text", "null">>, rows |-> 2, nulls |-> nulls \cup {<<1, 2>>, <<2, 2>>}] :
     nulls \in {{<<1, 1>>}, {<<2, 1>>}}}

\* domain "d" with key "ek" and domain "de" with key "k" are one name
MCDomains == {<<"d">>, <<"d", "e">>}
MCKeys == {<<"k">>, <<"e", "k">>}

\* the script's module is the one it makes an object of first
MysqlStep == objects = {} /\ Next /\ UNCHANGED memcacheVars
MemcacheStep == ~made /\ connects = 0 /\ MemcacheNext /\ UNCHANGED vars

ExtensionsInit == Init /\ MemcacheInit
ExtensionsSpec ==
  ExtensionsInit /\ [][MysqlStep \/ MemcacheStep]_<<vars, memcacheVars>>
=============================================================================
