------------------------------- MODULE MCNBT -------------------------------
(***************************************************************************)
(* Instances of NBTTrees for TLC: tags of every type, at the edges of      *)
(* their numbers, alone and in lists and compounds, down to three levels.  *)
(***************************************************************************)
EXTENDS NBTTrees

A == <<97>>
AB == <<97, 98>>
MCNames == {<<>>, A, AB}

Byte(n) == [type |-> TAG_BYTE, int |-> n]
Short(n) == [type |-> TAG_SHORT, int |-> n]
Word(n) == [type |-> TAG_INT, int |-> n]
Text(s) == [type |-> TAG_STRING, string |-> s]
ArrayOf(type, data) == [type |-> type, data |-> data]
ListOf(subtype, items) == [type |-> TAG_LIST, subtype |-> subtype, items |-> items]
CompoundOf(items) == [type |-> TAG_COMPOUND, items |-> items]
Node(k, v) == [key |-> k, value |-> v]

\* Numbers with a zero byte, a sign byte, and every byte different.
Numbers ==
    {Byte(0), Byte(-128), Short(300), Short(-2), Word(16909060), Word(-2147483647)}
Leaves ==
    Numbers \cup
    {Text(<<>>), Text(AB), ArrayOf(TAG_BYTE_ARRAY, <<>>), ArrayOf(TAG_BYTE_ARRAY, <<0, 255>>),
     ArrayOf(TAG_INT_ARRAY, <<>>), ArrayOf(TAG_INT_ARRAY, <<1, 65536>>)}
Lists ==
    {ListOf(TAG_END, <<>>), ListOf(TAG_BYTE, <<Byte(1), Byte(2), Byte(3)>>),
     ListOf(TAG_STRING, <<Text(A), Text(<<>>)>>),
     ListOf(TAG_LIST, <<ListOf(TAG_BYTE, <<Byte(1)>>), ListOf(TAG_END, <<>>)>>)}
Compounds ==
    {CompoundOf(<<>>),
     CompoundOf(<<Node(<<>>, Byte(7))>>),
     CompoundOf(<<Node(A, Short(1)), Node(AB, Text(A)), Node(<<>>, CompoundOf(<<>>))>>),
     CompoundOf(<<Node(A, ListOf(TAG_COMPOUND, <<CompoundOf(<<Node(A, Byte(0)), Node(AB, Byte(1))>>),
                                           CompoundOf(<<>>)>>)),
                Node(AB, ArrayOf(TAG_BYTE_ARRAY, <<0>>))>>),
     CompoundOf(<<Node(A, ListOf(TAG_COMPOUND, <<CompoundOf(<<>>), CompoundOf(<<Node(AB, Byte(5))>>)>>)),
                Node(<<>>, CompoundOf(<<Node(A, Word(5))>>))>>)}

\* One that fits no integer tag but TAG_Int, and one below zero.
MCValues == {70000, -1}

\* Every place where the files of these trees can be cut off.
MCCuts == 1 .. 100

MCTrees == Leaves \cup Lists \cup Compounds
MCTags == UNION {Within(t) : t \in MCTrees}

\* A string cut off in a file, at the root and in a list.
FewTrees == {Text(A), ListOf(TAG_STRING, <<Text(A)>>)}
=============================================================================
