------------------------------ MODULE TextEngineProofs -------------------------
(* What TextEngine promises for every schema, tokenizer and document.           *)
(*                                                                              *)
(* EngineInv says how the state was made: schemas of the fields the schema      *)
(* functions make, documents of the values the three ways of adding one take,   *)
(* and a default tokenizer that is the simple one.  It is inductive.  What the  *)
(* conversions, filters and queries do with such fields and documents is the    *)
(* subject of lemmas about the operators, which the theorems at the end join.   *)
EXTENDS TextEngine, FoldLemmas

--------------------------------------------------------------------------------
(* Selections.                                                                  *)

(* Every finite set of numbers has a first, a second, ... and a last element.   *)
LEMMA NthExists ==
  ASSUME NEW N \in Nat, NEW P \in SUBSET (1..N), NEW n \in 1..Cardinality(P)
  PROVE  Nth(P, n) \in P
<1> DEFINE Numbered(Q) == \A k \in 1..Cardinality(Q) :
                            \E i \in Q : Cardinality({j \in Q : j <= i}) = k
           Bad == {m \in Nat : \E Q \in SUBSET (1..m) : ~Numbered(Q)}
<1>1. Bad = {}
  <2> SUFFICES ASSUME Bad # {} PROVE FALSE
    OBVIOUS
  <2>1. PICK m \in Bad : \A k \in Bad : m <= k
    <3>1. Bad \in SUBSET Nat
      OBVIOUS
    <3> HIDE DEF Bad
    <3> QED BY <3>1, LeastNatural
  <2>2. PICK Q \in SUBSET (1..m) : ~Numbered(Q)
    OBVIOUS
  <2>3. m \in Nat /\ IsFiniteSet(Q)
    <3>1. m \in Nat
      OBVIOUS
    <3>2. IsFiniteSet(1..m)
      BY <3>1, FS_Interval
    <3> HIDE DEF Bad
    <3>3. IsFiniteSet(Q)
      BY <3>2, FS_Subset
    <3> QED BY <3>1, <3>3
  <2>4. PICK k \in 1..Cardinality(Q) : \A i \in Q : Cardinality({j \in Q : j <= i}) # k
    BY <2>2
  <2>5. Cardinality(Q) \in Nat /\ Cardinality(Q) > 0
    BY <2>3, <2>4, FS_CardinalityType
  <2>6. Q # {}
    <3> HIDE DEF Bad
    <3>1. Cardinality({}) = 0
      BY FS_EmptySet
    <3> QED BY <2>5, <3>1
  <2>7. m # 0 /\ m - 1 \in Nat /\ m - 1 \notin Bad
    <3>1. m # 0
      <4> HIDE DEF Bad
      <4>1. ASSUME m = 0 PROVE FALSE
        <5>1. 1..0 = {}
          OBVIOUS
        <5>2. Q \subseteq 1..0
          BY <4>1, <2>2, Zenon
        <5> QED BY <5>1, <5>2, <2>6, Zenon
      <4> QED BY <4>1
    <3>2. m - 1 \in Nat /\ ~(m <= m - 1)
      BY <3>1, <2>3
    <3> HIDE DEF Bad
    <3> QED BY <3>1, <3>2, <2>1
  <2>8. \A R \in SUBSET (1..m - 1) : Numbered(R)
    BY <2>7
  <2>9. m \in Q
    <3>1. m \in Q \/ Q \in SUBSET (1..m - 1)
      BY <2>3
    <3> QED BY <3>1, <2>8, <2>2
  <2> DEFINE R == Q \ {m}
  <2>10. R \in SUBSET (1..m - 1)
    BY <2>3
  <2>11. Cardinality(R) = Cardinality(Q) - 1
    BY <2>3, <2>9, FS_RemoveElement
  <2>12. CASE k = Cardinality(Q)
    <3> HIDE DEF Bad
    <3>1. \A j \in Q : j <= m
      BY <2>3
    <3>2. {j \in Q : j <= m} = Q
      BY <3>1
    <3> QED BY <2>12, <3>2, <2>4, <2>9
  <2>13. CASE k # Cardinality(Q)
    <3>1. k \in 1..Cardinality(R)
      BY <2>13, <2>11, <2>5
    <3>2. PICK i \in R : Cardinality({j \in R : j <= i}) = k
      BY <3>1, <2>8, <2>10
    <3>3. i \in 1..m - 1
      BY <2>10, <3>2
    <3>4. {j \in R : j <= i} = {j \in Q : j <= i}
      BY <3>3, <2>3
    <3> QED BY <3>2, <3>4, <2>4
  <2> QED BY <2>12, <2>13
<1>2. N \notin Bad
  BY <1>1
<1>3. \E i \in P : Cardinality({j \in P : j <= i}) = n
  BY <1>2
<1>4. QED
  BY <1>3, Zenon DEF Nth

(* What is kept of a sequence is a sequence of its elements.                    *)
LEMMA KeptType ==
  ASSUME NEW A, NEW s \in Seq(A), NEW P \in SUBSET DOMAIN s
  PROVE  /\ Kept(s, P) \in Seq(A)
         /\ DOMAIN Kept(s, P) = 1..Cardinality(P)
         /\ \A n \in 1..Cardinality(P) : Nth(P, n) \in P /\ Kept(s, P)[n] = s[Nth(P, n)]
<1>1. Len(s) \in Nat /\ DOMAIN s = 1..Len(s) /\ \A i \in 1..Len(s) : s[i] \in A
  OBVIOUS
<1>2. \A n \in 1..Cardinality(P) : Nth(P, n) \in P
  BY <1>1, NthExists
<1>3. IsFiniteSet(P)
  <2>1. IsFiniteSet(1..Len(s))
    BY <1>1, FS_Interval
  <2> QED BY <1>1, <2>1, FS_Subset
<1>4. Cardinality(P) \in Nat
  BY <1>3, FS_CardinalityType
<1>5. \A n \in 1..Cardinality(P) : s[Nth(P, n)] \in A
  BY <1>1, <1>2
<1>6. Kept(s, P) = [n \in 1..Cardinality(P) |-> s[Nth(P, n)]]
  BY DEF Kept
<1>7. QED
  BY <1>2, <1>4, <1>5, <1>6

(* Where every position is kept, nothing changes.                               *)
LEMMA KeptAll ==
  ASSUME NEW A, NEW s \in Seq(A)
  PROVE  Kept(s, DOMAIN s) = s
<1> DEFINE n == Len(s)
<1>1. n \in Nat /\ DOMAIN s = 1..n
  OBVIOUS
<1> HIDE DEF n
<1>2. Cardinality(1..n) = n /\ \A i \in 1..n : Cardinality(1..i) = i
  BY <1>1, FS_Interval
<1>3. ASSUME NEW k \in 1..n
      PROVE  Nth(1..n, k) = k
  <2>1. Nth(1..n, k) \in 1..n
    BY <1>1, <1>2, NthExists
  <2>2. \A i \in 1..n : {j \in 1..n : j <= i} = 1..i
    BY <1>1
  <2>3. \A i \in 1..n : Cardinality({j \in 1..n : j <= i}) = i
    BY <2>2, <1>2
  <2>4. k \in 1..n /\ Cardinality({j \in 1..n : j <= k}) = k
    BY <2>3
  <2>5. Cardinality({j \in 1..n : j <= Nth(1..n, k)}) = k
    BY <2>4, Zenon DEF Nth
  <2> QED BY <2>1, <2>3, <2>5
<1>4. Kept(s, DOMAIN s) = [k \in 1..n |-> s[Nth(1..n, k)]]
  BY <1>1, <1>2 DEF Kept
<1>5. s = [k \in 1..n |-> s[k]]
  BY <1>1
<1>6. QED
  BY <1>3, <1>4, <1>5

(* The chunks of a text are sequences of words, and of one chunk there is one.  *)
LEMMA ChunksOfText ==
  ASSUME NEW text \in Seq(Seq(Words))
  PROVE  /\ Solid(text) \in Seq(Seq(Words)) /\ Len(Chunks(text)) = Len(Solid(text))
         /\ \A i \in 1..Len(Solid(text)) : Chunks(text)[i] = <<Solid(text)[i]>>
         /\ DOMAIN Chunks(text) = 1..Len(Solid(text))
         /\ Len(text) <= 1 => Len(Chunks(text)) <= 1
<1> DEFINE P == {i \in DOMAIN text : text[i] # <<>>}
<1>1. P \in SUBSET DOMAIN text /\ DOMAIN text = 1..Len(text) /\ Len(text) \in Nat
  OBVIOUS
<1>2. Solid(text) = Kept(text, P)
  BY DEF Solid
<1> HIDE DEF P
<1>3. Solid(text) \in Seq(Seq(Words)) /\ DOMAIN Solid(text) = 1..Cardinality(P)
  BY <1>1, <1>2, KeptType
<1>4. Len(Solid(text)) \in Nat /\ DOMAIN Solid(text) = 1..Len(Solid(text))
  BY <1>3
<1>5. Chunks(text) = [i \in 1..Len(Solid(text)) |-> <<Solid(text)[i]>>]
  BY <1>4 DEF Chunks, Whitespace
<1>6. Len(Chunks(text)) = Len(Solid(text)) /\ DOMAIN Chunks(text) = 1..Len(Solid(text))
  BY <1>4, <1>5
<1>7. Len(text) <= 1 => Len(Solid(text)) <= 1
  <2> DEFINE n == Len(text)
  <2>1. IsFiniteSet(1..n) /\ Cardinality(1..n) = n
    <3>1. n \in Nat
      OBVIOUS
    <3> HIDE DEF n
    <3> QED BY <3>1, FS_Interval
  <2>2. IsFiniteSet(P) /\ Cardinality(P) <= Len(text) /\ Cardinality(P) \in Nat
    BY <1>1, <2>1, FS_Subset, FS_CardinalityType
  <2>3. Cardinality(P) = Len(Solid(text))
    BY <1>3, <1>4, <2>2
  <2> QED BY <1>1, <2>2, <2>3
<1>8. QED
  BY <1>3, <1>5, <1>6, <1>7

--------------------------------------------------------------------------------
(* The inductive invariant.                                                     *)

(* The fields the schema functions make.                                        *)
Fields ==
  {TextField(f, c[1], c[2]) : f \in TextNames, c \in TextChoices}
    \cup {OtherField(f, type, options) :
            f \in OtherNames, type \in OtherTypes, options \in OtherOptions}

DefaultIsSimple ==
  "default" \in DOMAIN registry => registry["default"] = [base |-> "simple", filters |-> <<>>]

FieldsAreMade == schema \in Seq(Fields) /\ index \in Seq(Fields)

(* Every name is one field's, and the schema grows from the index's.            *)
NamesApart == \A i, j \in DOMAIN schema : schema[i].name = schema[j].name => i = j
IndexBegins == IsPrefix(index, schema)

(* A writer's documents are those of its index, of which there is none before.  *)
DocumentsAreMade ==
  /\ live \in Seq(Made(index)) /\ committed \in Seq(Made(index))
  /\ index = <<>> => live = <<>> /\ committed = <<>>

EngineInv == DefaultIsSimple /\ FieldsAreMade /\ NamesApart /\ IndexBegins /\ DocumentsAreMade

(* Nothing is known of a tokenizer, a schema or a document at first.            *)
LEMMA EngineInit ==
  Init => EngineInv
<1> SUFFICES ASSUME Init PROVE EngineInv
  OBVIOUS
<1>1. registry = <<>> /\ schema = <<>> /\ index = <<>> /\ live = <<>> /\ committed = <<>>
  BY DEF Init
<1>2. DefaultIsSimple
  BY <1>1 DEF DefaultIsSimple
<1>3. FieldsAreMade
  BY <1>1 DEF FieldsAreMade
<1>4. NamesApart /\ IndexBegins
  BY <1>1 DEF NamesApart, IndexBegins, IsPrefix
<1>5. DocumentsAreMade
  BY <1>1 DEF DocumentsAreMade
<1>6. QED
  BY <1>2, <1>3, <1>4, <1>5 DEF EngineInv

(* A schema that grows by a field still begins with the index's.                *)
LEMMA PrefixGrows ==
  ASSUME NEW A, NEW s \in Seq(A), NEW t \in Seq(A), NEW e \in A, IsPrefix(s, t)
  PROVE  IsPrefix(s, Append(t, e))
<1>1. Len(s) \in Nat /\ Len(t) \in Nat /\ Len(s) <= Len(t)
  BY DEF IsPrefix
<1>2. SubSeq(Append(t, e), 1, Len(s)) = SubSeq(t, 1, Len(s))
  BY <1>1
<1>3. Len(s) <= Len(Append(t, e))
  BY <1>1
<1>4. QED
  BY <1>2, <1>3 DEF IsPrefix

(* A record of a field with the type it has.                                    *)
LEMMA SameType ==
  ASSUME NEW n, NEW type, NEW tokenizer, NEW indexed, NEW positions, NEW stored
  PROVE  LET field == [name |-> n, type |-> type, tokenizer |-> tokenizer, indexed |-> indexed,
                       positions |-> positions, stored |-> stored]
         IN  [field EXCEPT !.type = type] = field
  OBVIOUS

(* The arm of each type makes a field of that type.                             *)
LEMMA CopiedAsIs ==
  ASSUME NEW field \in Fields
  PROVE  field.type \in FieldTypes /\ [field EXCEPT !.type = CopyArms[field.type]] = field
<1>1. CASE field \in {TextField(f, c[1], c[2]) : f \in TextNames, c \in TextChoices}
  <2>1. PICK f \in TextNames, c \in TextChoices : field = TextField(f, c[1], c[2])
    BY <1>1
  <2>2. field.type = "str" /\ CopyArms["str"] = "str" /\ "str" \in FieldTypes
    BY <2>1 DEF TextField, CopyArms, FieldTypes
  <2>3. [field EXCEPT !.type = "str"] = field
    <3>1. \E n, k, x, p, r : field = [name |-> n, type |-> "str", tokenizer |-> k, indexed |-> x,
                                     positions |-> p, stored |-> r]
      BY <2>1, Zenon DEF TextField
    <3> QED BY <3>1, SameType
  <2> QED BY <2>2, <2>3, Zenon
<1>2. CASE field \in {OtherField(f, type, options) :
                        f \in OtherNames, type \in OtherTypes, options \in OtherOptions}
  <2>1. PICK f \in OtherNames, type \in OtherTypes, options \in OtherOptions :
             field = OtherField(f, type, options)
    BY <1>2
  <2>2. field.type = type
    BY <2>1, Zenon DEF OtherField
  <2>3. type \in FieldTypes
    BY TextEngineAssumption
  <2>4. CopyArms[type] = type
    BY <2>3 DEF CopyArms, FieldTypes
  <2>5. [field EXCEPT !.type = type] = field
    <3>1. \E n, k, x, p, r : field = [name |-> n, type |-> type, tokenizer |-> k, indexed |-> x,
                                     positions |-> p, stored |-> r]
      BY <2>1, Zenon DEF OtherField
    <3> QED BY <3>1, SameType
  <2> QED BY <2>2, <2>3, <2>4, <2>5, Zenon
<1>3. QED
  BY <1>1, <1>2 DEF Fields

(* A name is added to the schema once, behind the fields it has.              *)
LEMMA SchemaStep ==
  ASSUME EngineInv, NEW field \in Fields, AddSchemaField(field)
  PROVE  EngineInv'
<1>1. CopyExistingFields(schema) = schema /\ schema \in Seq(Fields) /\ index \in Seq(Fields)
  <2>1. schema \in Seq(Fields) /\ index \in Seq(Fields)
    BY DEF EngineInv, FieldsAreMade
  <2>2. \A i \in DOMAIN schema : [schema[i] EXCEPT !.type = CopyArms[schema[i].type]] = schema[i]
    BY <2>1, CopiedAsIs
  <2>3. CopyExistingFields(schema) = [i \in DOMAIN schema |-> schema[i]]
    BY <2>2, Zenon DEF CopyExistingFields
  <2>4. schema = [i \in DOMAIN schema |-> schema[i]]
    BY <2>1
  <2> QED BY <2>1, <2>3, <2>4
<1>2. /\ schema' = Append(schema, field)
      /\ UNCHANGED <<registry, index, live, committed, writer>>
  BY <1>1 DEF AddSchemaField, writing
<1>3. DefaultIsSimple'
  BY <1>2 DEF EngineInv, DefaultIsSimple
<1>4. FieldsAreMade'
  BY <1>1, <1>2 DEF FieldsAreMade
<1>5. IndexBegins'
  BY <1>1, <1>2, PrefixGrows DEF EngineInv, IndexBegins
<1>6. DocumentsAreMade'
  <2>1. Made(index)' = Made(index)
    BY <1>2 DEF Made, TypesOf, NamesOf, Field
  <2> QED BY <1>2, <2>1 DEF EngineInv, DocumentsAreMade
<1>7. NamesApart'
  <2>1. \A i \in DOMAIN schema : schema[i].name # field.name
    BY DEF AddSchemaField, NamesOf
  <2>2. \A i, j \in DOMAIN schema : schema[i].name = schema[j].name => i = j
    BY DEF EngineInv, NamesApart
  <2>3. /\ Len(schema) \in Nat /\ DOMAIN schema = 1..Len(schema)
        /\ DOMAIN schema' = 1..(Len(schema) + 1)
        /\ schema'[Len(schema) + 1] = field
        /\ \A i \in 1..Len(schema) : schema'[i] = schema[i]
    BY <1>1, <1>2
  <2>4. \A i \in DOMAIN schema' : i \in DOMAIN schema \/ i = Len(schema) + 1
    BY <2>3
  <2> SUFFICES ASSUME NEW i \in DOMAIN schema', NEW j \in DOMAIN schema',
                      schema'[i].name = schema'[j].name
               PROVE  i = j
    BY DEF NamesApart
  <2>5. CASE i \in DOMAIN schema /\ j \in DOMAIN schema
    BY <2>2, <2>3, <2>5
  <2>6. CASE i \in DOMAIN schema /\ j = Len(schema) + 1
    BY <2>1, <2>3, <2>6
  <2>7. CASE i = Len(schema) + 1 /\ j \in DOMAIN schema
    BY <2>1, <2>3, <2>7
  <2>8. CASE i = Len(schema) + 1 /\ j = Len(schema) + 1
    BY <2>8
  <2> QED BY <2>4, <2>5, <2>6, <2>7, <2>8
<1>8. QED
  BY <1>3, <1>4, <1>5, <1>6, <1>7 DEF EngineInv

(* Creating the index and opening it again.                                     *)
LEMMA CreateStep ==
  ASSUME EngineInv, CreateIndex
  PROVE  EngineInv'
<1>1. /\ index = <<>> /\ index' = schema
      /\ UNCHANGED <<registry, schema, live, committed, writer>>
  BY DEF CreateIndex, Create, writing
<1>2. live = <<>> /\ committed = <<>> /\ schema \in Seq(Fields)
  BY <1>1 DEF EngineInv, DocumentsAreMade, FieldsAreMade
<1>3. DefaultIsSimple'
  BY <1>1 DEF EngineInv, DefaultIsSimple
<1>4. FieldsAreMade'
  BY <1>1, <1>2 DEF FieldsAreMade
<1>5. IndexBegins' /\ NamesApart'
  BY <1>1, <1>2 DEF IndexBegins, IsPrefix, NamesApart, EngineInv
<1>6. DocumentsAreMade'
  BY <1>1, <1>2 DEF DocumentsAreMade
<1>7. QED
  BY <1>3, <1>4, <1>5, <1>6 DEF EngineInv

(* The documents an index may have are told by its schema.                      *)
LEMMA MadeUnchanged ==
  ASSUME index' = index
  PROVE  Made(index)' = Made(index)
  BY DEF Made, TypesOf, NamesOf, Field

(* A step that only changes what the writer holds, and leaves it documents of   *)
(* the index, of which there is one.                                            *)
LEMMA WriterKeeps ==
  ASSUME EngineInv, index # <<>>, UNCHANGED <<registry, schema, index>>,
         live' \in Seq(Made(index)), committed' \in Seq(Made(index))
  PROVE  EngineInv'
<1>1. DefaultIsSimple'
  BY DEF EngineInv, DefaultIsSimple
<1>2. FieldsAreMade'
  BY DEF EngineInv, FieldsAreMade
<1>3. IndexBegins' /\ NamesApart'
  BY DEF EngineInv, IndexBegins, NamesApart
<1>4. DocumentsAreMade'
  <2>1. Made(index)' = Made(index)
    BY MadeUnchanged
  <2> QED BY <2>1 DEF DocumentsAreMade
<1>5. QED
  BY <1>1, <1>2, <1>3, <1>4 DEF EngineInv

(* A new writer starts from what was committed.                               *)
LEMMA ReopenStep ==
  ASSUME EngineInv, Reopen
  PROVE  EngineInv'
<1>1. /\ index # <<>> /\ UNCHANGED <<registry, schema, index>>
      /\ live' = committed /\ committed' = committed
  BY DEF Reopen
<1>2. committed \in Seq(Made(index))
  BY DEF EngineInv, DocumentsAreMade
<1>3. QED
  BY <1>1, <1>2, WriterKeeps

(* The tokenizers: the name "default" is only registered by the defaults.       *)
LEMMA RegistryStep ==
  ASSUME EngineInv, RegisterDefaultTokenizers \/ \E o \in Analyzers : RegisterTextAnalyzer("custom", o)
  PROVE  EngineInv'
<1>1. UNCHANGED <<schema, index, live, committed, writer>>
  BY DEF RegisterDefaultTokenizers, RegisterTextAnalyzer, writing
<1>2. DefaultIsSimple'
  <2>1. CASE RegisterDefaultTokenizers
    <3>1. registry' = Registered(DefaultTokenizers)
      BY <2>1 DEF RegisterDefaultTokenizers
    <3>2. /\ "default" \in DOMAIN DefaultTokenizers
          /\ DefaultTokenizers["default"] = [base |-> "simple", filters |-> <<>>]
      BY DEF DefaultTokenizers
    <3>3. registry'["default"] = DefaultTokenizers["default"]
      <4> HIDE DEF DefaultTokenizers
      <4> QED BY <3>1, <3>2 DEF Registered
    <3> QED BY <3>2, <3>3 DEF DefaultIsSimple
  <2>2. CASE \E o \in Analyzers : RegisterTextAnalyzer("custom", o)
    <3>1. PICK o \in Analyzers : registry' = Registered([name \in {"custom"} |-> AnalyzerOf(o)])
      BY <2>2 DEF RegisterTextAnalyzer
    <3>2. /\ "default" \in DOMAIN registry' => "default" \in DOMAIN registry
          /\ "default" \in DOMAIN registry => registry'["default"] = registry["default"]
      BY <3>1 DEF Registered
    <3> QED BY <3>2 DEF EngineInv, DefaultIsSimple
  <2> QED BY <2>1, <2>2
<1>3. FieldsAreMade'
  BY <1>1 DEF EngineInv, FieldsAreMade
<1>4. IndexBegins' /\ NamesApart'
  BY <1>1 DEF EngineInv, IndexBegins, NamesApart
<1>5. DocumentsAreMade'
  <2>1. Made(index)' = Made(index)
    BY <1>1, MadeUnchanged
  <2> QED BY <1>1, <2>1 DEF EngineInv, DocumentsAreMade
<1>6. QED
  BY <1>2, <1>3, <1>4, <1>5 DEF EngineInv

(* Adding documents.  A handle has the fields of the index in their places.     *)
LEMMA HandlesBegin ==
  ASSUME EngineInv, NEW handle \in Handles
  PROVE  /\ \A n \in DOMAIN index : n \in DOMAIN handle /\ handle[n] = index[n]
         /\ \A i, j \in DOMAIN handle : handle[i].name = handle[j].name => i = j
<1>1. index \in Seq(Fields) /\ schema \in Seq(Fields)
  BY DEF EngineInv, FieldsAreMade
<1>2. Len(index) <= Len(schema) /\ index = SubSeq(schema, 1, Len(index))
  BY <1>1 DEF EngineInv, IndexBegins, IsPrefix
<1>3. \A n \in DOMAIN index : n \in DOMAIN schema /\ schema[n] = index[n]
  <2>1. Len(index) \in Nat /\ Len(schema) \in Nat
    BY <1>1
  <2>2. /\ DOMAIN index = 1..Len(index) /\ DOMAIN schema = 1..Len(schema)
        /\ \A n \in 1..Len(index) : n \in 1..Len(schema)
    BY <1>1, <1>2, <2>1
  <2>3. \A n \in 1..Len(index) : SubSeq(schema, 1, Len(index))[n] = schema[n]
    BY <1>1, <1>2, <2>1
  <2> QED BY <1>2, <2>2, <2>3
<1>4. \A i, j \in DOMAIN schema : schema[i].name = schema[j].name => i = j
  BY DEF EngineInv, NamesApart
<1>5. CASE handle = schema
  BY <1>3, <1>4, <1>5
<1>6. CASE handle = index
  BY <1>3, <1>4, <1>6
<1>7. QED
  BY <1>5, <1>6 DEF Handles

(* So it has their types, and the documents it converts are read as they are.   *)
LEMMA HandlesAgree ==
  ASSUME EngineInv, NEW handle \in Handles
  PROVE  /\ NamesOf(index) \subseteq NamesOf(handle)
         /\ \A f \in NamesOf(index) :
              /\ TypesOf(handle)[f] = TypesOf(index)[f]
              /\ Place(index, f) \in DOMAIN index /\ Place(index, f) \in DOMAIN handle
              /\ index[Place(index, f)].name = f /\ handle[Place(index, f)].name = f
<1>1. \A n \in DOMAIN index : n \in DOMAIN handle /\ handle[n] = index[n]
  BY HandlesBegin
<1>2. \A i, j \in DOMAIN handle : handle[i].name = handle[j].name => i = j
  BY HandlesBegin
<1>3. NamesOf(index) \subseteq NamesOf(handle)
  BY <1>1 DEF NamesOf
<1>4. ASSUME NEW f \in NamesOf(index)
      PROVE  /\ TypesOf(handle)[f] = TypesOf(index)[f]
             /\ Place(index, f) \in DOMAIN index /\ Place(index, f) \in DOMAIN handle
             /\ index[Place(index, f)].name = f /\ handle[Place(index, f)].name = f
  <2> DEFINE here == CHOOSE i \in DOMAIN index : index[i].name = f
             there == CHOOSE i \in DOMAIN handle : handle[i].name = f
  <2>1. \E i \in DOMAIN index : index[i].name = f
    BY DEF NamesOf
  <2>2. here \in DOMAIN index /\ index[here].name = f
    BY <2>1
  <2>3. here \in DOMAIN handle /\ handle[here] = index[here]
    BY <1>1, <2>2
  <2>4. there \in DOMAIN handle /\ handle[there].name = f
    BY <2>2, <2>3
  <2> HIDE DEF here, there
  <2>5. here = there
    BY <1>2, <2>2, <2>3, <2>4
  <2>6. TypesOf(handle)[f] = handle[there].type
    BY <1>3, Zenon DEF TypesOf, Field, there
  <2>7. TypesOf(index)[f] = index[here].type
    BY Zenon DEF TypesOf, Field, here
  <2>8. Place(index, f) = here
    BY Zenon DEF Place, here
  <2> QED BY <2>2, <2>3, <2>5, <2>6, <2>7, <2>8
<1>5. QED
  BY <1>3, <1>4

(* What is read of a document that has the fields a handle knows.               *)
LEMMA ReadAsKnown ==
  ASSUME EngineInv, NEW handle \in Handles, NEW d \in Docs, NEW doc,
         DOMAIN doc = Known(TypesOf(handle), d)
  PROVE  Read(handle, doc) = [f \in Known(TypesOf(index), d) |-> doc[f]]
<1> DEFINE numbers == {n \in DOMAIN index \cap DOMAIN handle : handle[n].name \in DOMAIN doc}
           names == {index[n].name : n \in numbers}
<1>1. /\ DOMAIN doc = DOMAIN d.v \cap NamesOf(handle)
      /\ Known(TypesOf(index), d) = DOMAIN d.v \cap NamesOf(index)
  BY DEF Known, TypesOf
<1>2. \A n \in DOMAIN index : n \in DOMAIN handle /\ handle[n] = index[n]
  BY HandlesBegin
<1>3. names = Known(TypesOf(index), d)
  <2>1. ASSUME NEW f \in names PROVE f \in Known(TypesOf(index), d)
    <3>1. PICK n \in numbers : f = index[n].name
      OBVIOUS
    <3>2. n \in DOMAIN index /\ handle[n].name \in DOMAIN doc /\ handle[n] = index[n]
      BY <1>2
    <3>3. f \in NamesOf(index) /\ f \in DOMAIN d.v
      BY <3>1, <3>2, <1>1 DEF NamesOf
    <3> QED BY <3>3, <1>1
  <2>2. ASSUME NEW f \in Known(TypesOf(index), d) PROVE f \in names
    <3>1. f \in DOMAIN d.v /\ f \in NamesOf(index)
      BY <1>1
    <3>2. PICK n \in DOMAIN index : index[n].name = f
      BY <3>1 DEF NamesOf
    <3>3. n \in DOMAIN handle /\ handle[n].name = f
      BY <1>2, <3>2
    <3>4. f \in DOMAIN doc
      BY <1>1, <3>1, HandlesAgree
    <3> QED BY <3>2, <3>3, <3>4
  <2> QED BY <2>1, <2>2
<1>4. \A f \in NamesOf(index) : handle[Place(index, f)].name = f
  BY HandlesAgree
<1>5. names \subseteq NamesOf(index)
  BY <1>3, <1>1
<1>6. Read(handle, doc) = [f \in names |-> doc[handle[Place(index, f)].name]]
  BY Zenon DEF Read
<1> HIDE DEF names, numbers
<1>7. [f \in names |-> doc[handle[Place(index, f)].name]] = [f \in names |-> doc[f]]
  BY <1>4, <1>5
<1>8. QED
  BY <1>3, <1>6, <1>7

(* The documents a handle makes, for the index that has it.                   *)
LEMMA ReadIsMade ==
  ASSUME EngineInv, NEW handle \in Handles, NEW d \in Docs
  PROVE  LET types == TypesOf(handle) IN
         /\ Read(handle, [f \in Known(types, d) |-> SingleField(types[f], d.v[f])]) \in Made(index)
         /\ Read(handle, [f \in Known(types, d) |-> WithSchemaField(types[f], d.v[f])]) \in Made(index)
         /\ Accepted(types, d) =>
              Read(handle, [f \in Known(types, d) |-> AddField(types[f], d.v[f]).values]) \in Made(index)
<1> DEFINE types == TypesOf(handle)
           own == TypesOf(index)
           single == [f \in Known(types, d) |-> SingleField(types[f], d.v[f])]
           typed == [f \in Known(types, d) |-> WithSchemaField(types[f], d.v[f])]
           batched == [f \in Known(types, d) |-> AddField(types[f], d.v[f]).values]
<1>1. \A f \in Known(own, d) : f \in Known(types, d) /\ types[f] = own[f]
  <2>1. /\ Known(types, d) = DOMAIN d.v \cap NamesOf(handle)
        /\ Known(own, d) = DOMAIN d.v \cap NamesOf(index)
    BY DEF Known, TypesOf
  <2> HIDE DEF types, own
  <2> QED BY <2>1, HandlesAgree DEF types, own
<1>2. /\ Read(handle, single) = [f \in Known(own, d) |-> single[f]]
      /\ Read(handle, typed) = [f \in Known(own, d) |-> typed[f]]
      /\ Read(handle, batched) = [f \in Known(own, d) |-> batched[f]]
  BY ReadAsKnown
<1>3. \A f \in Known(own, d) :
        /\ single[f] = SingleField(own[f], d.v[f])
        /\ typed[f] = WithSchemaField(own[f], d.v[f])
        /\ batched[f] = AddField(own[f], d.v[f]).values
  <2> HIDE DEF types, own
  <2> QED BY <1>1
<1>4. Accepted(types, d) => Accepted(own, d)
  <2> HIDE DEF types, own
  <2> QED BY <1>1 DEF Accepted
<1> HIDE DEF single, typed, batched
<1>5. /\ Read(handle, single) = [f \in Known(own, d) |-> SingleField(own[f], d.v[f])]
      /\ Read(handle, typed) = [f \in Known(own, d) |-> WithSchemaField(own[f], d.v[f])]
      /\ Read(handle, batched) = [f \in Known(own, d) |-> AddField(own[f], d.v[f]).values]
  BY <1>2, <1>3
<1>6. Read(handle, single) \in Made(index) /\ Read(handle, typed) \in Made(index)
  BY <1>5 DEF Made
<1>7. Accepted(types, d) => Read(handle, batched) \in Made(index)
  BY <1>4, <1>5 DEF Made
<1>8. QED
  BY <1>6, <1>7 DEF single, typed, batched

(* A step of a writer that keeps what it has, or has more of it.              *)
LEMMA AddsStep ==
  ASSUME EngineInv, Writer, NEW handle, NEW A, NEW docs \in Seq(A),
         \A i \in DOMAIN docs : Read(handle, docs[i]) \in Made(index), Adds(handle, docs)
  PROVE  EngineInv'
<1>1. index # <<>> /\ live \in Seq(Made(index)) /\ committed \in Seq(Made(index))
  BY DEF Writer, EngineInv, DocumentsAreMade
<1> DEFINE read == [i \in DOMAIN docs |-> Read(handle, docs[i])]
<1>2. read \in Seq(Made(index))
  <2>1. Len(docs) \in Nat /\ DOMAIN docs = 1..Len(docs)
    OBVIOUS
  <2> QED BY <2>1
<1> HIDE DEF read
<1>3. CASE \E i \in DOMAIN docs : Unknown(handle, docs[i])
  <2>1. UNCHANGED <<registry, schema, index, live, committed>>
    BY <1>3 DEF Adds
  <2> QED BY <2>1, <1>1, WriterKeeps
<1>4. CASE ~\E i \in DOMAIN docs : Unknown(handle, docs[i])
  <2>1. live' = live \o read /\ UNCHANGED <<registry, schema, index, committed>>
    BY <1>4 DEF Adds, read
  <2>2. live' \in Seq(Made(index)) /\ committed' \in Seq(Made(index))
    BY <1>1, <1>2, <2>1
  <2> QED BY <1>1, <2>1, <2>2, WriterKeeps
<1>5. QED
  BY <1>3, <1>4

(* What the single additions make of a document.                              *)
LEMMA AddedAreMade ==
  ASSUME EngineInv, Writer, NEW handle \in Handles, NEW d \in Docs,
         \/ Adds(handle, AddDocument(TypesOf(handle), d))
         \/ Adds(handle, AddDocumentWithSchema(TypesOf(handle), d))
  PROVE  EngineInv'
<1>1. d.t = "map"
  BY TextEngineAssumption
<1> DEFINE types == TypesOf(handle)
           single == [f \in Known(types, d) |-> SingleField(types[f], d.v[f])]
           typed == [f \in Known(types, d) |-> WithSchemaField(types[f], d.v[f])]
<1>2. Read(handle, single) \in Made(index) /\ Read(handle, typed) \in Made(index)
  BY ReadIsMade
<1>3. AddDocument(TypesOf(handle), d) = <<single>>
  BY <1>1 DEF AddDocument
<1>4. AddDocumentWithSchema(TypesOf(handle), d) = <<typed>>
  BY <1>1 DEF AddDocumentWithSchema
<1> HIDE DEF single, typed
<1>5. \A one : Read(handle, one) \in Made(index) =>
                <<one>> \in Seq({one}) /\ \A i \in DOMAIN <<one>> : Read(handle, <<one>>[i]) \in Made(index)
  OBVIOUS
<1>6. CASE Adds(handle, <<single>>)
  BY <1>2, <1>5, <1>6, AddsStep
<1>7. CASE Adds(handle, <<typed>>)
  BY <1>2, <1>5, <1>7, AddsStep
<1>8. QED
  BY <1>3, <1>4, <1>6, <1>7

(* What the batch makes of its documents.                                     *)
LEMMA BatchIsMade ==
  ASSUME EngineInv, NEW handle \in Handles, NEW d \in Docs \cup {Nil}, NEW e \in Docs \cup {Nil}
  PROVE  LET added == AddBatch(TypesOf(handle), <<d, e>>).added IN
         /\ \E A : added \in Seq(A)
         /\ \A i \in DOMAIN added : Read(handle, added[i]) \in Made(index)
<1> DEFINE types == TypesOf(handle)
           docs == <<d, e>>
           P == {i \in DOMAIN docs : Accepted(types, docs[i])}
           taken == Kept(docs, P)
           Doc(b) == [f \in Known(types, b) |-> AddField(types[f], b.v[f]).values]
           added == [i \in DOMAIN taken |-> Doc(taken[i])]
<1>1. docs \in Seq(Docs \cup {Nil}) /\ P \in SUBSET DOMAIN docs
  OBVIOUS
<1>2. \A i \in P : docs[i] \in Docs /\ Accepted(types, docs[i])
  <2> TAKE i \in P
  <2>1. docs[i] \in Docs \cup {Nil} /\ Accepted(types, docs[i])
    OBVIOUS
  <2>2. ~Accepted(types, Nil)
    BY DEF Accepted, Nil
  <2> QED BY <2>1, <2>2
<1>3. AddBatch(types, docs).added = added
  BY DEF AddBatch
<1>4. \A b \in Docs : Accepted(types, b) => Read(handle, Doc(b)) \in Made(index)
  BY ReadIsMade
<1> HIDE DEF docs, P
<1>5. /\ DOMAIN taken = 1..Cardinality(P) /\ taken \in Seq(Docs \cup {Nil})
      /\ \A n \in 1..Cardinality(P) : Nth(P, n) \in P /\ taken[n] = docs[Nth(P, n)]
  BY <1>1, KeptType
<1>6. \A n \in DOMAIN taken : taken[n] \in Docs /\ Accepted(types, taken[n])
  BY <1>2, <1>5
<1> HIDE DEF taken, Doc
<1>7. Len(taken) \in Nat /\ DOMAIN taken = 1..Len(taken)
  BY <1>5
<1>8. \A i \in DOMAIN added : Read(handle, added[i]) \in Made(index)
  BY <1>4, <1>6
<1>9. added \in Seq({Doc(taken[i]) : i \in DOMAIN taken})
  BY <1>7
<1>10. QED
  BY <1>3, <1>8, <1>9 DEF docs

(* Deleting documents.                                                          *)
LEMMA DeletesStep ==
  ASSUME EngineInv, Writer, NEW P \in SUBSET DOMAIN live, live' = Kept(live, P),
         UNCHANGED <<registry, schema, index, committed, writer>>
  PROVE  EngineInv'
<1>1. index # <<>> /\ live \in Seq(Made(index)) /\ committed \in Seq(Made(index))
  BY DEF Writer, EngineInv, DocumentsAreMade
<1>2. live' \in Seq(Made(index)) /\ committed' \in Seq(Made(index))
  BY <1>1, KeptType
<1>3. QED
  BY <1>1, <1>2, WriterKeeps

(* A step that changes nothing of it.                                           *)
LEMMA EngineUnchanged ==
  ASSUME EngineInv, UNCHANGED <<registry, schema, index, live, committed>>
  PROVE  EngineInv'
<1>1. Made(index)' = Made(index)
  BY MadeUnchanged
<1>2. DocumentsAreMade'
  BY <1>1 DEF EngineInv, DocumentsAreMade
<1>3. DefaultIsSimple' /\ FieldsAreMade' /\ IndexBegins' /\ NamesApart'
  BY DEF EngineInv, DefaultIsSimple, FieldsAreMade, IndexBegins, NamesApart
<1>4. QED
  BY <1>2, <1>3 DEF EngineInv

(* A deletion by term leaves a part of the documents.                         *)
LEMMA DeleteTermStep ==
  ASSUME EngineInv, NEW f, NEW x, WriterDeleteTerm(f, x)
  PROVE  EngineInv'
<1> DEFINE field == Field(index, f)
           value == DeleteValue(field.type, x)
           byText == {i \in DOMAIN live : ~FoundBy(DeleteTerm(field, x.v), f, live[i])}
           byValue == {i \in DOMAIN live :
                         ~(field.indexed /\ value.values[1].v \in ValuesIn(live[i], f))}
<1>1. Writer
  BY DEF WriterDeleteTerm
<1>2. \/ UNCHANGED vars
      \/ writer' = "poisoned" /\ UNCHANGED <<registry, schema, index, live, committed>>
      \/ /\ live' = Kept(live, byText)
         /\ UNCHANGED <<registry, schema, index, committed, writer>>
      \/ /\ live' = Kept(live, byValue)
         /\ UNCHANGED <<registry, schema, index, committed, writer>>
  BY DEF WriterDeleteTerm, Refuse, Panic, Deletes
<1>3. byText \in SUBSET DOMAIN live /\ byValue \in SUBSET DOMAIN live
  OBVIOUS
<1> HIDE DEF byText, byValue
<1>4. QED
  BY <1>1, <1>2, <1>3, EngineUnchanged, DeletesStep DEF vars

(* A deletion by query leaves a part of the documents.                        *)
LEMMA DeleteDocumentsStep ==
  ASSUME EngineInv, NEW f, NEW text, WriterDeleteDocuments(f, text)
  PROVE  EngineInv'
<1> DEFINE P == {i \in DOMAIN live : ~FoundBy(QueryTerm(Field(index, f), text), f, live[i])}
<1>1. Writer /\ live' = Kept(live, P) /\ UNCHANGED <<registry, schema, index, committed, writer>>
  BY DEF WriterDeleteDocuments, Deletes
<1>2. P \in SUBSET DOMAIN live
  OBVIOUS
<1> HIDE DEF P
<1>3. QED
  BY <1>1, <1>2, DeletesStep

(* Every step keeps the invariant.                                            *)
LEMMA EngineNext ==
  EngineInv /\ [Next]_vars => EngineInv'
<1> SUFFICES ASSUME EngineInv, [Next]_vars
             PROVE  EngineInv'
  OBVIOUS
<1>1. CASE UNCHANGED vars
  BY <1>1, EngineUnchanged DEF vars
<1>2. CASE AddTextField
  <2>1. PICK f \in TextNames, c \in TextChoices : AddSchemaField(TextField(f, c[1], c[2]))
    BY <1>2 DEF AddTextField
  <2>2. TextField(f, c[1], c[2]) \in Fields
    BY DEF Fields
  <2> QED BY <2>1, <2>2, SchemaStep
<1>3. CASE AddOtherField
  <2>1. PICK f \in OtherNames, type \in OtherTypes, options \in OtherOptions :
          AddSchemaField(OtherField(f, type, options))
    BY <1>3 DEF AddOtherField
  <2>2. OtherField(f, type, options) \in Fields
    BY DEF Fields
  <2> QED BY <2>1, <2>2, SchemaStep
<1>4. CASE CreateIndex
  BY <1>4, CreateStep
<1>5. CASE Reopen
  BY <1>5, ReopenStep
<1>6. CASE OpenOrCreate
  BY <1>6, CreateStep, ReopenStep DEF OpenOrCreate
<1>7. CASE RegisterDefaultTokenizers \/ \E o \in Analyzers : RegisterTextAnalyzer("custom", o)
  BY <1>7, RegistryStep
<1>8. CASE \/ \E b \in Docs : WriterAddDocument(b)
            \/ \E handle \in Handles, d \in Docs : WriterAddDocumentWithSchema(handle, d)
  <2>1. CASE \E d \in Docs : WriterAddDocument(d)
    <3>1. index \in Handles
      BY DEF Handles
    <3> QED BY <2>1, <3>1, AddedAreMade DEF WriterAddDocument
  <2>2. CASE \E handle \in Handles, d \in Docs : WriterAddDocumentWithSchema(handle, d)
    BY <2>2, AddedAreMade DEF WriterAddDocumentWithSchema
  <2> QED BY <1>8, <2>1, <2>2
<1>9. CASE \E handle \in Handles, d, e \in Docs \cup {Nil} : WriterAddDocumentBatch(handle, <<d, e>>)
  <2>1. PICK handle \in Handles, d \in Docs \cup {Nil}, e \in Docs \cup {Nil} :
          WriterAddDocumentBatch(handle, <<d, e>>)
    BY <1>9
  <2> DEFINE added == AddBatch(TypesOf(handle), <<d, e>>).added
  <2>2. Writer /\ Adds(handle, added)
    BY <2>1 DEF WriterAddDocumentBatch
  <2>3. /\ \E A : added \in Seq(A)
        /\ \A i \in DOMAIN added : Read(handle, added[i]) \in Made(index)
    BY BatchIsMade
  <2> HIDE DEF added
  <2>4. PICK A : added \in Seq(A)
    BY <2>3
  <2> QED BY <2>2, <2>3, <2>4, AddsStep
<1>10. CASE \E f \in NamesOf(index), x \in Terms : WriterDeleteTerm(f, x)
  BY <1>10, DeleteTermStep
<1>11. CASE \E f \in NamesOf(index), t \in Strings : WriterDeleteDocuments(f, t)
  BY <1>11, DeleteDocumentsStep
<1>12. CASE WriterCommit
  <2>1. live \in Seq(Made(index)) /\ index # <<>>
    BY <1>12 DEF EngineInv, DocumentsAreMade, WriterCommit, Writer
  <2> QED BY <1>12, <2>1, WriterKeeps DEF WriterCommit
<1>13. CASE WriterRollback
  <2>1. committed \in Seq(Made(index)) /\ index # <<>>
    BY <1>13 DEF EngineInv, DocumentsAreMade, WriterRollback
  <2> QED BY <1>13, <2>1, WriterKeeps DEF WriterRollback
<1>14. QED
  BY <1>1, <1>2, <1>3, <1>4, <1>5, <1>6, <1>7, <1>8, <1>9, <1>10, <1>11, <1>12, <1>13, Zenon
     DEF Next

(* The invariant, at every moment.                                            *)
LEMMA EngineAlways ==
  Spec => []EngineInv
<1>1. QED
  BY EngineInit, EngineNext, PTL DEF Spec

--------------------------------------------------------------------------------
(* Conversions of documents.                                                    *)

(* The field types one by one.                                                  *)
LEMMA TypesAreThese ==
  ASSUME NEW type \in FieldTypes
  PROVE  \/ type = "str" \/ type = "u64" \/ type = "i64" \/ type = "f64" \/ type = "bool"
         \/ type = "date" \/ type = "facet" \/ type = "bytes" \/ type = "json" \/ type = "ip"
  BY DEF FieldTypes

(* What validates is taken, over every term a caller may pass.                  *)
LEMMA ValidIsTaken ==
  ASSUME NEW type \in FieldTypes, NEW x, ValidField(type, x)
  PROVE  AddField(type, x).ok
<1> USE DEF Taken, OrRefused, Refused, Nothing, One
<1>1. CASE type = "str"
  BY <1>1 DEF ValidField, AddField, StrField
<1>2. CASE type = "u64"
  BY <1>2 DEF ValidField, AddField, UnsignedField
<1>3. CASE type = "i64"
  BY <1>3 DEF ValidField, AddField, SignedField
<1>4. CASE type = "f64"
  BY <1>4 DEF ValidField, AddField, FloatField
<1>5. CASE type = "bool"
  BY <1>5 DEF ValidField, AddField, BoolField
<1>6. CASE type = "date"
  BY <1>6 DEF ValidField, AddField, DateField, Timestamp
<1>7. CASE type = "facet"
  <2>1. IsList(x) \/ Parses("facet", x)
    BY <1>7 DEF ValidField
  <2>2. CASE IsList(x)
    BY <1>7, <2>2 DEF AddField
  <2>3. CASE ~IsList(x) /\ Parses("facet", x)
    <3>1. IsStr(x)
      BY <2>3 DEF Parses
    <3> QED BY <1>7, <2>3, <3>1 DEF AddField, Facets
  <2> QED BY <2>1, <2>2, <2>3
<1>8. CASE type = "bytes"
  BY <1>8 DEF ValidField, AddField
<1>9. CASE type = "json"
  BY <1>9 DEF AddField
<1>10. CASE type = "ip"
  BY <1>10 DEF ValidField, AddField, IpField
<1>11. QED
  BY TypesAreThese, <1>1, <1>2, <1>3, <1>4, <1>5, <1>6, <1>7, <1>8, <1>9, <1>10

(* What the batch takes for a field of these types, the other two store alike.  *)
LEMMA AddsAgree ==
  ASSUME NEW type \in AgreeingTypes, NEW x, AddField(type, x).ok
  PROVE  /\ AddField(type, x).values = SingleField(type, x)
         /\ AddField(type, x).values = WithSchemaField(type, x)
<1> USE DEF Taken, OrRefused, Refused, AddField, SingleField, WithSchemaField
<1>1. CASE type = "str"
  BY <1>1
<1>2. CASE type = "u64"
  BY <1>2
<1>3. CASE type = "i64"
  BY <1>3
<1>4. CASE type = "bool"
  BY <1>4
<1>5. CASE type = "facet"
  BY <1>5
<1>6. CASE type = "ip"
  BY <1>6
<1>7. QED
  BY <1>1, <1>2, <1>3, <1>4, <1>5, <1>6 DEF AgreeingTypes

(* A value a deletion takes is the value that is stored.                        *)
LEMMA DeletedAsStored ==
  ASSUME NEW type \in FieldTypes, type # "str", NEW x,
         DeleteValue(type, x).ok, SingleField(type, x) # Nothing
  PROVE  DeleteValue(type, x).values = SingleField(type, x)
<1> USE DEF Taken, Refused, Found, NumberIn, TruthIn, Parsed, IsStr
<1>1. CASE type = "u64"
  BY <1>1 DEF DeleteValue, SingleField, UnsignedField, IsU64
<1>2. CASE type = "i64"
  BY <1>2 DEF DeleteValue, SingleField, SignedField, IsU64, IsI64
<1>3. CASE type = "f64"
  BY <1>3 DEF DeleteValue, SingleField, FloatField, IsU64, IsI64
<1>4. CASE type = "bool"
  BY <1>4 DEF DeleteValue, SingleField, BoolField
<1>5. CASE type = "date"
  BY <1>5 DEF DeleteValue, SingleField, Timestamp, IsU64, IsI64
<1>6. CASE type \in {"facet", "bytes", "json", "ip"}
  BY <1>6 DEF DeleteValue
<1>7. QED
  BY TypesAreThese, <1>1, <1>2, <1>3, <1>4, <1>5, <1>6

(* A number or truth value the batch stores can be deleted by.                  *)
LEMMA StoredIsDeletable ==
  ASSUME NEW type \in {"u64", "i64", "bool"}, NEW x, AddField(type, x).ok
  PROVE  DeleteValue(type, x).ok
<1> USE DEF Taken, Refused, Found, OrRefused, AddField, DeleteValue
<1>1. CASE type = "u64"
  BY <1>1 DEF UnsignedField
<1>2. CASE type = "i64"
  BY <1>2 DEF SignedField
<1>3. CASE type = "bool"
  BY <1>3 DEF BoolField
<1>4. QED
  BY <1>1, <1>2, <1>3

(* A string is deleted by as it is looked up.                                   *)
LEMMA DeletedAsQueried ==
  ASSUME NEW type \in FieldTypes, type # "str", NEW x, IsStr(x), DeleteValue(type, x).ok
  PROVE  DeleteValue(type, x) = QueryValue(type, x)
<1> USE DEF Taken, Refused, Found, NumberIn, TruthIn, IsStr
<1>1. CASE type = "u64"
  BY <1>1 DEF DeleteValue, QueryValue, IsU64
<1>2. CASE type = "i64"
  BY <1>2 DEF DeleteValue, QueryValue, IsU64, IsI64
<1>3. CASE type = "f64"
  BY <1>3 DEF DeleteValue, QueryValue, IsU64, IsI64
<1>4. CASE type = "bool"
  BY <1>4 DEF DeleteValue, QueryValue
<1>5. CASE type = "date"
  BY <1>5 DEF DeleteValue, QueryValue, IsI64
<1>6. CASE type \in {"facet", "bytes", "json", "ip"}
  BY <1>6 DEF DeleteValue
<1>7. QED
  BY TypesAreThese, <1>1, <1>2, <1>3, <1>4, <1>5, <1>6

(* A number that is stored is an integer.                                       *)
LEMMA StoredNumbers ==
  ASSUME NEW type \in RangeTypes, NEW x \in Terms, SingleField(type, x) # Nothing
  PROVE  \E n \in Int : SingleField(type, x) = One(type, n)
<1>1. 2^Bits \in Int /\ 2^(Bits - 1) \in Int
  BY DocumentFieldsAssumption
<1>2. CASE type = "u64"
  <2>1. IsU64(x) /\ SingleField(type, x) = One("u64", x.v)
    BY <1>2 DEF SingleField, UnsignedField
  <2>2. x.v \in Int
    BY <1>1, <2>1 DEF IsU64
  <2> QED BY <1>2, <2>1, <2>2
<1>3. CASE type = "i64"
  <2>1. (IsI64(x) \/ IsU64(x)) /\ SingleField(type, x) = One("i64", AsI64(x.v))
    BY <1>3 DEF SingleField, SignedField
  <2>2. x.v \in Int
    BY <1>1, <2>1 DEF IsU64, IsI64
  <2>3. AsI64(x.v) \in Int
    BY <1>1, <2>2 DEF AsI64
  <2> QED BY <1>3, <2>1, <2>3
<1>4. CASE type = "f64"
  <2>1. (x.t = "float" \/ IsI64(x) \/ IsU64(x)) /\ SingleField(type, x) = One("f64", x.v)
    BY <1>4 DEF SingleField, FloatField
  <2>2. x.v \in Int
    BY <1>1, <2>1, TextEngineAssumption DEF IsU64, IsI64
  <2> QED BY <1>4, <2>1, <2>2
<1>5. QED
  BY <1>2, <1>3, <1>4 DEF RangeTypes

(* The end of a range is stored as itself.                                      *)
LEMMA EndIsStored ==
  ASSUME NEW type \in RangeTypes, NEW x \in Terms, x # Nil, IsEnd(type, x)
  PROVE  x.v \in Int /\ SingleField(type, x) = One(type, x.v)
<1>1. 2^Bits \in Int /\ 2^(Bits - 1) \in Int
  BY DocumentFieldsAssumption
<1>2. CASE type = "u64"
  <2>1. IsU64(x)
    BY <1>2 DEF IsEnd
  <2>2. x.v \in Int
    BY <1>1, <2>1 DEF IsU64
  <2> QED BY <1>2, <2>1, <2>2 DEF SingleField, UnsignedField
<1>3. CASE type = "i64"
  <2>1. IsI64(x)
    BY <1>3 DEF IsEnd
  <2>2. x.v \in Int /\ x.v < 2^(Bits - 1)
    BY <1>1, <2>1 DEF IsI64
  <2>3. AsI64(x.v) = x.v
    BY <1>1, <2>2 DEF AsI64
  <2> QED BY <1>3, <2>1, <2>2, <2>3 DEF SingleField, SignedField
<1>4. CASE type = "f64"
  <2>1. x.t = "float"
    BY <1>4 DEF IsEnd
  <2> QED BY <1>4, <2>1, TextEngineAssumption DEF SingleField, FloatField
<1>5. QED
  BY <1>2, <1>3, <1>4 DEF RangeTypes

(* A range of one number finds what is stored as that number.                   *)
LEMMA RangeOfOne ==
  ASSUME NEW type \in RangeTypes, NEW x \in Terms, x # Nil, IsEnd(type, x),
         NEW y \in Terms, SingleField(type, y) # Nothing
  PROVE  InRange(x, x, SingleField(type, y)[1].v) <=> SingleField(type, y) = SingleField(type, x)
<1>1. x.v \in Int /\ SingleField(type, x) = One(type, x.v)
  BY EndIsStored
<1>2. PICK n \in Int : SingleField(type, y) = One(type, n)
  BY StoredNumbers
<1>3. SingleField(type, y)[1].v = n
  BY <1>2 DEF One
<1>4. InRange(x, x, n) <=> x.v = n
  BY <1>1, <1>2 DEF InRange
<1>5. One(type, n) = One(type, x.v) <=> x.v = n
  BY DEF One
<1>6. QED
  BY <1>1, <1>2, <1>3, <1>4, <1>5

--------------------------------------------------------------------------------
(* Analyzers: filters one after the other.                                      *)

After(tokens, filters) == FoldLeft(LAMBDA k, f : Filter(f, k), tokens, filters)

(* g is the recursive function of the fold over the first n filters.            *)
Filters(g, tokens, filters, n) ==
  g = [s \in SUBSET (1..n) |->
         IF s = {} THEN tokens ELSE Filter(filters[Max(s)], g[s \ {Max(s)}])]

TheFilters(tokens, filters, n) == CHOOSE g : Filters(g, tokens, filters, n)

(* The last position is the greatest.                                         *)
LEMMA MaxOfLast ==
  ASSUME NEW n \in Nat, NEW s \in SUBSET (1..n), n \in s
  PROVE  Max(s) = n
<1>1. \A y \in s : n >= y
  OBVIOUS
<1>2. \A x \in s : (\A y \in s : x >= y) => x = n
  OBVIOUS
<1>3. QED
  BY <1>1, <1>2, Zenon DEF Max

(* There is one, for any number of filters.                                     *)
LEMMA FiltersExist ==
  ASSUME NEW tokens, NEW filters, NEW n \in Nat
  PROVE  Filters(TheFilters(tokens, filters, n), tokens, filters, n)
<1> DEFINE Bad == {m \in Nat : ~ \E g : Filters(g, tokens, filters, m)}
<1>1. Bad = {}
  <2> SUFFICES ASSUME Bad # {} PROVE FALSE
    OBVIOUS
  <2>1. PICK m \in Bad : \A k \in Bad : m <= k
    <3>1. Bad \in SUBSET Nat
      OBVIOUS
    <3> HIDE DEF Bad
    <3> QED BY <3>1, LeastNatural
  <2>2. m \in Nat /\ ~ \E g : Filters(g, tokens, filters, m)
    OBVIOUS
  <2>3. CASE m = 0
    <3> DEFINE h == [s \in SUBSET (1..m) |-> tokens]
    <3>1. \A s \in SUBSET (1..m) : s = {}
      BY <2>3
    <3>2. \A s \in SUBSET (1..m) :
            h[s] = IF s = {} THEN tokens ELSE Filter(filters[Max(s)], h[s \ {Max(s)}])
      BY <3>1
    <3>3. h = [s \in SUBSET (1..m) |-> h[s]]
      OBVIOUS
    <3> HIDE DEF h
    <3>4. Filters(h, tokens, filters, m)
      BY <3>2, <3>3, Zenon DEF Filters
    <3> QED BY <2>2, <3>4
  <2>4. CASE m # 0
    <3>1. m - 1 \in Nat /\ ~(m <= m - 1)
      BY <2>2, <2>4
    <3>2. PICK g : Filters(g, tokens, filters, m - 1)
      <4>1. m - 1 \notin Bad
        <5> HIDE DEF Bad
        <5> QED BY <2>1, <3>1
      <4> QED BY <3>1, <4>1
    <3> DEFINE h == [s \in SUBSET (1..m) |->
                       IF m \in s THEN Filter(filters[m], g[s \ {m}]) ELSE g[s]]
    <3> HIDE DEF Bad
    <3>3. \A s \in SUBSET (1..m) :
            h[s] = IF s = {} THEN tokens ELSE Filter(filters[Max(s)], h[s \ {Max(s)}])
      <4> TAKE s \in SUBSET (1..m)
      <4>1. CASE m \in s
        <5>1. Max(s) = m /\ s # {}
          BY <2>2, <4>1, MaxOfLast
        <5>2. s \ {m} \in SUBSET (1..m) /\ m \notin s \ {m}
          OBVIOUS
        <5>3. h[s \ {m}] = g[s \ {m}]
          BY <5>2, Zenon
        <5>4. h[s] = Filter(filters[m], g[s \ {m}])
          BY <4>1, Zenon
        <5> HIDE DEF h
        <5> QED BY <5>1, <5>3, <5>4, Zenon
      <4>2. CASE m \notin s
        <5>1. s \in SUBSET (1..m - 1)
          BY <2>2, <4>2
        <5>2. h[s] = g[s]
          BY <4>2, Zenon
        <5>3. g[s] = IF s = {} THEN tokens ELSE Filter(filters[Max(s)], g[s \ {Max(s)}])
          BY <5>1, <3>2, Zenon DEF Filters
        <5>4. s \ {Max(s)} \in SUBSET (1..m) /\ m \notin s \ {Max(s)}
          BY <4>2
        <5>5. h[s \ {Max(s)}] = g[s \ {Max(s)}]
          BY <5>4, Zenon
        <5> HIDE DEF h
        <5> QED BY <5>2, <5>3, <5>5, Zenon
      <4> QED BY <4>1, <4>2
    <3>4. h = [s \in SUBSET (1..m) |-> h[s]]
      BY Zenon
    <3> HIDE DEF h
    <3>5. Filters(h, tokens, filters, m)
      BY <3>3, <3>4, Zenon DEF Filters
    <3> QED BY <2>2, <3>5
  <2> QED BY <2>3, <2>4
<1>2. \E g : Filters(g, tokens, filters, n)
  BY <1>1
<1> QED BY <1>2, Zenon DEF TheFilters

(* What it is of no filters and of the first ones.                              *)
LEMMA FiltersUnfold ==
  ASSUME NEW tokens, NEW filters, NEW n \in Nat, NEW g, Filters(g, tokens, filters, n)
  PROVE  /\ g[{}] = tokens
         /\ \A k \in 1..n : g[1..k] = Filter(filters[k], g[1..k - 1])
<1>1. g[{}] = tokens
  <2>1. {} \in SUBSET (1..n)
    OBVIOUS
  <2> QED BY <2>1, Zenon DEF Filters
<1>2. ASSUME NEW k \in 1..n
      PROVE  g[1..k] = Filter(filters[k], g[1..k - 1])
  <2>1. 1..k \in SUBSET (1..n) /\ 1..k # {}
    OBVIOUS
  <2>2. Max(1..k) = k
    <3>1. k \in Nat /\ k \in 1..k
      OBVIOUS
    <3> QED BY <3>1, MaxOfLast
  <2>3. (1..k) \ {k} = 1..k - 1
    OBVIOUS
  <2>4. g[1..k] = Filter(filters[Max(1..k)], g[(1..k) \ {Max(1..k)}])
    BY <2>1, Zenon DEF Filters
  <2> QED BY <2>2, <2>3, <2>4, Zenon
<1>3. QED
  BY <1>1, <1>2

(* The tokens after some filters are the recursive function at all of them.   *)
LEMMA AfterIsFilters ==
  ASSUME NEW tokens, NEW filters, NEW n \in Nat, DOMAIN filters = 1..n
  PROVE  After(tokens, filters) = TheFilters(tokens, filters, n)[1..n]
<1>1. After(tokens, filters) = (CHOOSE g : g = [s \in SUBSET (DOMAIN filters) |->
         IF s = {} THEN tokens ELSE Filter(filters[Max(s)], g[s \ {Max(s)}])])[DOMAIN filters]
  BY Zenon DEF After, FoldLeft, MapThenFoldSet
<1>2. QED
  BY <1>1, Zenon DEF TheFilters, Filters

(* No filter changes nothing; one more is the last.                             *)
LEMMA AfterNone ==
  ASSUME NEW tokens
  PROVE  After(tokens, <<>>) = tokens
<1>1. 0 \in Nat /\ DOMAIN <<>> = 1..0 /\ 1..0 = {}
  OBVIOUS
<1>2. After(tokens, <<>>) = TheFilters(tokens, <<>>, 0)[{}]
  BY <1>1, AfterIsFilters
<1>3. Filters(TheFilters(tokens, <<>>, 0), tokens, <<>>, 0)
  BY FiltersExist
<1>4. QED
  BY <1>2, <1>3, FiltersUnfold

(* One more filter is applied to what the others leave.                       *)
LEMMA AfterOneMore ==
  ASSUME NEW tokens, NEW A, NEW filters \in Seq(A), NEW f \in A
  PROVE  After(tokens, Append(filters, f)) = Filter(f, After(tokens, filters))
<1> DEFINE n == Len(filters)
           more == Append(filters, f)
           g == TheFilters(tokens, filters, n)
           h == TheFilters(tokens, more, n + 1)
           Bad == {k \in 0..n : g[1..k] # h[1..k]}
<1>1. /\ n \in Nat /\ DOMAIN filters = 1..n /\ DOMAIN more = 1..(n + 1) /\ more[n + 1] = f
      /\ \A k \in 1..n : more[k] = filters[k]
  OBVIOUS
<1> HIDE DEF n, more
<1>2. Filters(g, tokens, filters, n) /\ Filters(h, tokens, more, n + 1)
  BY <1>1, FiltersExist
<1>3. After(tokens, filters) = g[1..n] /\ After(tokens, more) = h[1..(n + 1)]
  <2>1. n + 1 \in Nat
    BY <1>1
  <2> QED BY <1>1, <2>1, AfterIsFilters
<1> HIDE DEF g, h
<1>4. /\ g[{}] = tokens /\ h[{}] = tokens
      /\ \A k \in 1..n : g[1..k] = Filter(filters[k], g[1..k - 1])
      /\ \A k \in 1..(n + 1) : h[1..k] = Filter(more[k], h[1..k - 1])
  BY <1>1, <1>2, FiltersUnfold
<1>5. Bad = {}
  <2> SUFFICES ASSUME Bad # {} PROVE FALSE
    OBVIOUS
  <2>1. PICK k \in Bad : \A j \in Bad : k <= j
    <3>1. Bad \in SUBSET Nat
      BY <1>1
    <3> HIDE DEF Bad
    <3> QED BY <3>1, LeastNatural
  <2>2. k \in 0..n /\ g[1..k] # h[1..k]
    OBVIOUS
  <2>3. k # 0
    <3>1. 1..0 = {}
      OBVIOUS
    <3> QED BY <1>4, <2>2, <3>1, Zenon
  <2>4. k \in 1..n /\ k \in 1..(n + 1) /\ k - 1 \in 0..n /\ ~(k <= k - 1)
    BY <1>1, <2>2, <2>3
  <2>5. g[1..k - 1] = h[1..k - 1]
    BY <2>1, <2>4
  <2> QED BY <1>1, <1>4, <2>2, <2>4, <2>5, Zenon
<1>6. h[1..(n + 1)] = Filter(f, h[1..n])
  <2>1. n + 1 \in 1..(n + 1) /\ n + 1 - 1 = n
    BY <1>1
  <2> QED BY <1>1, <1>4, <2>1
<1>7. g[1..n] = h[1..n]
  BY <1>1, <1>5
<1>8. QED
  BY <1>3, <1>6, <1>7 DEF more

(* The tokens of a sequence of words.                                           *)
Tokens(words) == [i \in DOMAIN words |-> Word(words[i])]

(* A token of one word.                                                       *)
LEMMA OneWordTokens ==
  ASSUME NEW w
  PROVE  /\ IsOneWord(Word(w)) /\ Word(w)[1][1] = w
         /\ \A set : In(set, Word(w)) <=> w \in set
         /\ LowerText(Word(w)) = Word(Lower[w])
         /\ StemToken(Word(w)) = Word(Stem[w])
<1>1. IsOneWord(Word(w)) /\ Word(w)[1][1] = w
  BY DEF IsOneWord, Word
<1>2. \A set : In(set, Word(w)) <=> w \in set
  BY <1>1 DEF In
<1>3. LowerText(Word(w)) = Word(Lower[w])
  BY DEF LowerText, Word
<1>4. StemToken(Word(w)) = Word(Stem[w])
  BY <1>1 DEF StemToken
<1>5. QED
  BY <1>1, <1>2, <1>3, <1>4

(* The filters, on words.                                                       *)
Lowered(words) == [i \in DOMAIN words |-> Lower[words[i]]]
Stemmed(words) == [i \in DOMAIN words |-> Stem[words[i]]]
Without(words, set) == Kept(words, {i \in DOMAIN words : ~(words[i] \in set)})

(* The filters over tokens of one word are filters over the words.            *)
LEMMA LowerOfTokens ==
  ASSUME NEW words
  PROVE  Filter("lower", Tokens(words)) = Tokens(Lowered(words))
<1>1. Filter("lower", Tokens(words)) = MapSeq(Tokens(words), LowerText)
  BY DEF Filter
<1>2. MapSeq(Tokens(words), LowerText) = [i \in DOMAIN words |-> LowerText(Word(words[i]))]
  BY DEF MapSeq, Tokens
<1>3. \A i \in DOMAIN words : LowerText(Word(words[i])) = Word(Lower[words[i]])
  BY OneWordTokens
<1>4. Tokens(Lowered(words)) = [i \in DOMAIN words |-> Word(Lower[words[i]])]
  BY DEF Tokens, Lowered
<1>5. QED
  BY <1>1, <1>2, <1>3, <1>4

(* The stemmer.                                                               *)
LEMMA StemOfTokens ==
  ASSUME NEW words
  PROVE  Filter("stem", Tokens(words)) = Tokens(Stemmed(words))
<1>1. Filter("stem", Tokens(words)) = MapSeq(Tokens(words), StemToken)
  BY DEF Filter
<1>2. MapSeq(Tokens(words), StemToken) = [i \in DOMAIN words |-> StemToken(Word(words[i]))]
  BY DEF MapSeq, Tokens
<1>3. \A i \in DOMAIN words : StemToken(Word(words[i])) = Word(Stem[words[i]])
  BY OneWordTokens
<1>4. Tokens(Stemmed(words)) = [i \in DOMAIN words |-> Word(Stem[words[i]])]
  BY DEF Tokens, Stemmed
<1>5. QED
  BY <1>1, <1>2, <1>3, <1>4

(* A filter that removes the words of a set.                                  *)
LEMMA SelectionOfTokens ==
  ASSUME NEW words \in Seq(Words), NEW set
  PROVE  Kept(Tokens(words), {i \in DOMAIN Tokens(words) : ~In(set, Tokens(words)[i])})
           = Tokens(Without(words, set))
<1> DEFINE P == {i \in DOMAIN words : ~(words[i] \in set)}
           T == Tokens(words)
<1>1. DOMAIN T = DOMAIN words /\ \A i \in DOMAIN words : T[i] = Word(words[i])
  BY DEF Tokens
<1>2. {i \in DOMAIN T : ~In(set, T[i])} = P
  <2>1. \A i \in DOMAIN words : In(set, Word(words[i])) <=> words[i] \in set
    BY OneWordTokens
  <2> HIDE DEF T
  <2> QED BY <1>1, <2>1
<1>3. /\ DOMAIN Kept(words, P) = 1..Cardinality(P)
      /\ \A n \in 1..Cardinality(P) : Nth(P, n) \in P /\ Kept(words, P)[n] = words[Nth(P, n)]
  <2>1. P \in SUBSET DOMAIN words
    OBVIOUS
  <2> HIDE DEF P
  <2> QED BY <2>1, KeptType
<1>4. \A i \in P : i \in DOMAIN words
  OBVIOUS
<1> HIDE DEF T, P
<1>5. Kept(T, P) = [n \in 1..Cardinality(P) |-> T[Nth(P, n)]]
  BY DEF Kept
<1>6. Tokens(Kept(words, P)) = [n \in 1..Cardinality(P) |-> Word(Kept(words, P)[n])]
  BY <1>3 DEF Tokens
<1>7. \A n \in 1..Cardinality(P) : T[Nth(P, n)] = Word(Kept(words, P)[n])
  BY <1>1, <1>3, <1>4
<1>8. Kept(T, P) = Tokens(Kept(words, P))
  BY <1>5, <1>6, <1>7
<1>9. Without(words, set) = Kept(words, P)
  BY DEF Without, P
<1>10. QED
  BY <1>2, <1>8, <1>9 DEF T

(* The stop words.                                                            *)
LEMMA StopOfTokens ==
  ASSUME NEW words \in Seq(Words)
  PROVE  Filter("stop", Tokens(words)) = Tokens(Without(words, StopWords))
<1>1. Filter("stop", Tokens(words))
        = Kept(Tokens(words), {i \in DOMAIN Tokens(words) : ~In(StopWords, Tokens(words)[i])})
  BY DEF Filter
<1>2. QED
  BY <1>1, SelectionOfTokens

(* The words that are too long.                                               *)
LEMMA LongOfTokens ==
  ASSUME NEW words \in Seq(Words)
  PROVE  Filter("long", Tokens(words)) = Tokens(Without(words, LongWords))
<1>1. Filter("long", Tokens(words))
        = Kept(Tokens(words), {i \in DOMAIN Tokens(words) : ~In(LongWords, Tokens(words)[i])})
  BY DEF Filter
<1>2. QED
  BY <1>1, SelectionOfTokens

(* The results are words again.                                                 *)
LEMMA FilteredAreWords ==
  ASSUME NEW words \in Seq(Words), NEW set
  PROVE  Lowered(words) \in Seq(Words) /\ Stemmed(words) \in Seq(Words)
         /\ Without(words, set) \in Seq(Words)
<1>1. Len(words) \in Nat /\ DOMAIN words = 1..Len(words) /\ \A i \in 1..Len(words) : words[i] \in Words
  OBVIOUS
<1>2. \A w \in Words : Lower[w] \in Words /\ Stem[w] \in Words
  BY TextIndexAssumption
<1>3. Lowered(words) \in Seq(Words) /\ Stemmed(words) \in Seq(Words)
  BY <1>1, <1>2 DEF Lowered, Stemmed
<1>4. Without(words, set) \in Seq(Words)
  <2>1. {i \in DOMAIN words : ~(words[i] \in set)} \in SUBSET DOMAIN words
    OBVIOUS
  <2> QED BY <2>1, KeptType DEF Without
<1>5. QED
  BY <1>3, <1>4

(* The four filters of a registered analyzer, each when its option asks for it, *)
(* in the order that makes sense of them.                                       *)
Optional(on, f) == IF on THEN <<f>> ELSE << >>
Chain(o) ==
  Optional(o.lower, "lower") \o Optional(o.stop # "none", "stop") \o Optional(o.stem # "none", "stem")
    \o Optional(o.long, "long")

(* The chain of an analyzer, one filter after the other.                      *)
LEMMA ChainApplies ==
  ASSUME NEW o, NEW words \in Seq(Words), NEW lowered, NEW kept, NEW stemmed, NEW short,
         lowered = IF o.lower THEN Lowered(words) ELSE words,
         kept = IF o.stop # "none" THEN Without(lowered, StopWords) ELSE lowered,
         stemmed = IF o.stem # "none" THEN Stemmed(kept) ELSE kept,
         short = IF o.long THEN Without(stemmed, LongWords) ELSE stemmed
  PROVE  After(Tokens(words), Chain(o)) = Tokens(short)
<1> DEFINE c1 == Optional(o.lower, "lower")
           c2 == c1 \o Optional(o.stop # "none", "stop")
           c3 == c2 \o Optional(o.stem # "none", "stem")
           c4 == c3 \o Optional(o.long, "long")
           A == {"lower", "stop", "stem", "long"}
           T == Tokens(words)
<1>1. lowered \in Seq(Words) /\ kept \in Seq(Words) /\ stemmed \in Seq(Words)
  BY FilteredAreWords
<1> HIDE DEF T
<1>2. c1 \in Seq(A) /\ After(T, c1) = Tokens(lowered)
  <2>1. PICK none \in Seq(A) : none = <<>> /\ After(T, none) = Tokens(words)
    <3>1. <<>> \in Seq(A)
      OBVIOUS
    <3>2. After(T, <<>>) = T
      BY AfterNone, Zenon
    <3>3. T = Tokens(words)
      BY DEF T
    <3> QED BY <3>1, <3>2, <3>3, Zenon
  <2>2. CASE o.lower
    <3>1. c1 = Append(none, "lower")
      BY <2>1, <2>2 DEF Optional
    <3> HIDE DEF c1
    <3>2. After(T, c1) = Filter("lower", Tokens(words)) /\ c1 \in Seq(A)
      <4>1. "lower" \in A /\ Append(none, "lower") \in Seq(A)
        OBVIOUS
      <4> HIDE DEF A
      <4>2. After(T, Append(none, "lower")) = Filter("lower", After(T, none))
        BY <4>1, AfterOneMore
      <4> QED BY <2>1, <3>1, <4>1, <4>2, Zenon
    <3>3. lowered = Lowered(words)
      BY <2>2
    <3> QED BY <3>2, <3>3, LowerOfTokens
  <2>3. CASE ~o.lower
    <3>1. c1 = <<>>
      BY <2>3 DEF Optional
    <3>2. lowered = words
      BY <2>3
    <3> QED BY <2>1, <3>1, <3>2
  <2> QED BY <2>2, <2>3
<1> HIDE DEF c1
<1>3. c2 \in Seq(A) /\ After(T, c2) = Tokens(kept)
  <2>1. CASE o.stop # "none"
    <3>1. c2 = Append(c1, "stop")
      BY <1>2, <2>1 DEF Optional
    <3> HIDE DEF c2
    <3>2. After(T, c2) = Filter("stop", Tokens(lowered)) /\ c2 \in Seq(A)
      BY <1>2, <3>1, AfterOneMore
    <3>3. kept = Without(lowered, StopWords)
      BY <2>1
    <3> QED BY <1>1, <3>2, <3>3, StopOfTokens
  <2>2. CASE ~(o.stop # "none")
    <3>1. c2 = c1
      BY <1>2, <2>2 DEF Optional
    <3>2. kept = lowered
      BY <2>2
    <3> QED BY <1>2, <3>1, <3>2
  <2> QED BY <2>1, <2>2
<1> HIDE DEF c2
<1>4. c3 \in Seq(A) /\ After(T, c3) = Tokens(stemmed)
  <2>1. CASE o.stem # "none"
    <3>1. c3 = Append(c2, "stem")
      BY <1>3, <2>1 DEF Optional
    <3> HIDE DEF c3
    <3>2. After(T, c3) = Filter("stem", Tokens(kept)) /\ c3 \in Seq(A)
      BY <1>3, <3>1, AfterOneMore
    <3>3. stemmed = Stemmed(kept)
      BY <2>1
    <3> QED BY <1>1, <3>2, <3>3, StemOfTokens
  <2>2. CASE ~(o.stem # "none")
    <3>1. c3 = c2
      BY <1>3, <2>2 DEF Optional
    <3>2. stemmed = kept
      BY <2>2
    <3> QED BY <1>3, <3>1, <3>2
  <2> QED BY <2>1, <2>2
<1> HIDE DEF c3
<1>5. c4 \in Seq(A) /\ After(T, c4) = Tokens(short)
  <2>1. CASE o.long
    <3>1. c4 = Append(c3, "long")
      BY <1>4, <2>1 DEF Optional
    <3> HIDE DEF c4
    <3>2. After(T, c4) = Filter("long", Tokens(stemmed)) /\ c4 \in Seq(A)
      BY <1>4, <3>1, AfterOneMore
    <3>3. short = Without(stemmed, LongWords)
      BY <2>1
    <3> QED BY <1>1, <3>2, <3>3, LongOfTokens
  <2>2. CASE ~o.long
    <3>1. c4 = c3
      BY <1>4, <2>2 DEF Optional
    <3>2. short = stemmed
      BY <2>2
    <3> QED BY <1>4, <3>1, <3>2
  <2> QED BY <2>1, <2>2
<1>6. QED
  BY <1>5 DEF Chain, c1, c2, c3, T

(* Both tokenizers make the words between spaces.                               *)
LEMMA WordsAreTokens ==
  ASSUME NEW t \in Seq(Seq(Words)), \A i \in DOMAIN t : Len(t[i]) = 1
  PROVE  LET words == [i \in DOMAIN t |-> t[i][1]] IN
         words \in Seq(Words) /\ Simple(t) = Tokens(words) /\ Whitespace(t) = Tokens(words)
<1> DEFINE words == [i \in DOMAIN t |-> t[i][1]]
<1>1. /\ Len(t) \in Nat /\ DOMAIN t = 1..Len(t)
      /\ \A i \in DOMAIN t : t[i] \in Seq(Words) /\ Len(t[i]) = 1
  OBVIOUS
<1>2. \A i \in DOMAIN t : t[i][1] \in Words /\ t[i] = <<t[i][1]>>
  BY <1>1
<1>3. words \in Seq(Words)
  BY <1>1, <1>2
<1>4. AllWords(t) = words
  BY OnesFlatten DEF AllWords
<1>5. Simple(t) = Tokens(words)
  <2> HIDE DEF words
  <2> QED BY <1>4 DEF Simple, Tokens
<1>6. Whitespace(t) = Tokens(words)
  <2>1. \A i \in DOMAIN t : <<t[i]>> = Word(t[i][1])
    BY <1>2 DEF Word
  <2>2. Tokens(words) = [i \in DOMAIN t |-> Word(t[i][1])]
    BY DEF Tokens
  <2>3. {i \in DOMAIN t : t[i] # <<>>} = DOMAIN t
    <3>1. Len(<<>>) = 0
      OBVIOUS
    <3>2. ASSUME NEW i \in DOMAIN t, t[i] = <<>> PROVE FALSE
      <4>1. Len(t[i]) = 1
        BY <1>1, Zenon
      <4>2. Len(t[i]) = 0
        BY <3>1, <3>2, Zenon
      <4> HIDE DEF words
      <4> QED BY <4>1, <4>2
    <3> HIDE DEF words
    <3> QED BY <3>2
  <2>4. Solid(t) = t
    BY <2>3, KeptAll DEF Solid
  <2> HIDE DEF words
  <2> QED BY <2>1, <2>2, <2>4 DEF Whitespace
<1>7. QED
  BY <1>3, <1>5, <1>6

(* A sequence with one more element.                                            *)
LEMMA SeqGrows ==
  ASSUME NEW A, NEW s \in Seq(A), NEW f \in A, NEW t \in Seq(A), Len(t) = Len(s) + 1,
         t[Len(t)] = f, \A i \in 1..Len(s) : t[i] = s[i]
  PROVE  s \o <<f>> = t
<1>1. s \o <<f>> \in Seq(A) /\ Len(s \o <<f>>) = Len(t)
  OBVIOUS
<1>2. \A i \in 1..Len(t) : (s \o <<f>>)[i] = t[i]
  OBVIOUS
<1>3. QED
  BY <1>1, <1>2

(* Chains of up to four filters, one more or none at a time.                    *)
LEMMA TuplesGrow ==
  ASSUME NEW a, NEW b, NEW c, NEW d
  PROVE  /\ << >> \o <<a>> = <<a>> /\ <<a>> \o <<b>> = <<a, b>>
         /\ <<a, b>> \o <<c>> = <<a, b, c>> /\ <<a, b, c>> \o <<d>> = <<a, b, c, d>>
         /\ << >> \o << >> = << >> /\ <<a>> \o << >> = <<a>>
         /\ <<a, b>> \o << >> = <<a, b>> /\ <<a, b, c>> \o << >> = <<a, b, c>>
<1> DEFINE A == {a, b, c, d}
<1>1. <<a>> \in Seq(A) /\ <<a, b>> \in Seq(A) /\ <<a, b, c>> \in Seq(A) /\ <<a, b, c, d>> \in Seq(A)
  OBVIOUS
<1>2. Len(<<a>>) = 1 /\ Len(<<a, b>>) = 2 /\ Len(<<a, b, c>>) = 3 /\ Len(<<a, b, c, d>>) = 4
  OBVIOUS
<1>3. <<a>> \o <<b>> = <<a, b>>
  <2>1. <<a, b>>[Len(<<a, b>>)] = b /\ Len(<<a, b>>) = Len(<<a>>) + 1 /\ b \in A
    OBVIOUS
  <2>2. \A i \in 1..Len(<<a>>) : <<a, b>>[i] = <<a>>[i]
    OBVIOUS
  <2> HIDE DEF A
  <2> QED BY <1>1, <2>1, <2>2, SeqGrows
<1>4. <<a, b>> \o <<c>> = <<a, b, c>>
  <2>1. <<a, b, c>>[Len(<<a, b, c>>)] = c /\ Len(<<a, b, c>>) = Len(<<a, b>>) + 1 /\ c \in A
    OBVIOUS
  <2>2. \A i \in 1..Len(<<a, b>>) : <<a, b, c>>[i] = <<a, b>>[i]
    OBVIOUS
  <2> HIDE DEF A
  <2> QED BY <1>1, <2>1, <2>2, SeqGrows
<1>5. <<a, b, c>> \o <<d>> = <<a, b, c, d>>
  <2>1. <<a, b, c, d>>[Len(<<a, b, c, d>>)] = d /\ Len(<<a, b, c, d>>) = Len(<<a, b, c>>) + 1 /\ d \in A
    OBVIOUS
  <2>2. \A i \in 1..Len(<<a, b, c>>) : <<a, b, c, d>>[i] = <<a, b, c>>[i]
    OBVIOUS
  <2> HIDE DEF A
  <2> QED BY <1>1, <2>1, <2>2, SeqGrows
<1>6. \A s \in Seq(A) : s \o << >> = s
  OBVIOUS
<1>7. << >> \o <<a>> = <<a>> /\ << >> \o << >> = << >>
  OBVIOUS
<1>8. QED
  BY <1>1, <1>3, <1>4, <1>5, <1>6, <1>7

(* Each of the chains that are written out is that one.                         *)
LEMMA ChainsAreThese ==
  ASSUME NEW lower, NEW stop, NEW stem, NEW long
  PROVE  LET chain == Optional(lower, "lower") \o Optional(stop, "stop") \o Optional(stem, "stem")
                        \o Optional(long, "long")
         IN  /\ SimpleChain(lower, stop, stem, long) = chain
             /\ WhitespaceChain(lower, stop, stem, long) = chain
<1> DEFINE chain == Optional(lower, "lower") \o Optional(stop, "stop") \o Optional(stem, "stem")
                      \o Optional(long, "long")
<1>1. CASE lower /\ stop /\ stem /\ long
  <2>1. chain = <<"lower", "stop", "stem", "long">>
    <3>1. chain = <<"lower">> \o <<"stop">> \o <<"stem">> \o <<"long">>
      BY <1>1, Zenon DEF Optional
    <3>2. <<"lower">> \o <<"stop">> = <<"lower", "stop">>
      BY TuplesGrow, Zenon
    <3>3. <<"lower", "stop">> \o <<"stem">> = <<"lower", "stop", "stem">>
      BY TuplesGrow, Zenon
    <3>4. <<"lower", "stop", "stem">> \o <<"long">> = <<"lower", "stop", "stem", "long">>
      BY TuplesGrow, Zenon
    <3> QED BY <3>1, <3>2, <3>3, <3>4, Zenon
  <2>2. SimpleChain(lower, stop, stem, long) = <<"lower", "stop", "stem", "long">>
    BY <1>1 DEF SimpleChain
  <2>3. WhitespaceChain(lower, stop, stem, long) = <<"lower", "stop", "stem", "long">>
    BY <1>1 DEF WhitespaceChain
  <2> QED BY <2>1, <2>2, <2>3
<1>2. CASE lower /\ stop /\ stem /\ ~long
  <2>1. chain = <<"lower", "stop", "stem">>
    BY <1>2, TuplesGrow DEF Optional
  <2>2. SimpleChain(lower, stop, stem, long) = <<"lower", "stop", "stem">>
    BY <1>2 DEF SimpleChain
  <2>3. WhitespaceChain(lower, stop, stem, long) = <<"lower", "stop", "stem">>
    BY <1>2 DEF WhitespaceChain
  <2> QED BY <2>1, <2>2, <2>3
<1>3. CASE lower /\ stop /\ ~stem /\ long
  <2>1. chain = <<"lower", "stop", "long">>
    BY <1>3, TuplesGrow DEF Optional
  <2>2. SimpleChain(lower, stop, stem, long) = <<"lower", "stop", "long">>
    BY <1>3 DEF SimpleChain
  <2>3. WhitespaceChain(lower, stop, stem, long) = <<"lower", "stop", "long">>
    BY <1>3 DEF WhitespaceChain
  <2> QED BY <2>1, <2>2, <2>3
<1>4. CASE lower /\ stop /\ ~stem /\ ~long
  <2>1. chain = <<"lower", "stop">>
    BY <1>4, TuplesGrow DEF Optional
  <2>2. SimpleChain(lower, stop, stem, long) = <<"lower", "stop">>
    BY <1>4 DEF SimpleChain
  <2>3. WhitespaceChain(lower, stop, stem, long) = <<"lower", "stop">>
    BY <1>4 DEF WhitespaceChain
  <2> QED BY <2>1, <2>2, <2>3
<1>5. CASE lower /\ ~stop /\ stem /\ long
  <2>1. chain = <<"lower", "stem", "long">>
    BY <1>5, TuplesGrow DEF Optional
  <2>2. SimpleChain(lower, stop, stem, long) = <<"lower", "stem", "long">>
    BY <1>5 DEF SimpleChain
  <2>3. WhitespaceChain(lower, stop, stem, long) = <<"lower", "stem", "long">>
    BY <1>5 DEF WhitespaceChain
  <2> QED BY <2>1, <2>2, <2>3
<1>6. CASE lower /\ ~stop /\ stem /\ ~long
  <2>1. chain = <<"lower", "stem">>
    BY <1>6, TuplesGrow DEF Optional
  <2>2. SimpleChain(lower, stop, stem, long) = <<"lower", "stem">>
    BY <1>6 DEF SimpleChain
  <2>3. WhitespaceChain(lower, stop, stem, long) = <<"lower", "stem">>
    BY <1>6 DEF WhitespaceChain
  <2> QED BY <2>1, <2>2, <2>3
<1>7. CASE lower /\ ~stop /\ ~stem /\ long
  <2>1. chain = <<"lower", "long">>
    BY <1>7, TuplesGrow DEF Optional
  <2>2. SimpleChain(lower, stop, stem, long) = <<"lower", "long">>
    BY <1>7 DEF SimpleChain
  <2>3. WhitespaceChain(lower, stop, stem, long) = <<"lower", "long">>
    BY <1>7 DEF WhitespaceChain
  <2> QED BY <2>1, <2>2, <2>3
<1>8. CASE lower /\ ~stop /\ ~stem /\ ~long
  <2>1. chain = <<"lower">>
    BY <1>8, TuplesGrow DEF Optional
  <2>2. SimpleChain(lower, stop, stem, long) = <<"lower">>
    BY <1>8 DEF SimpleChain
  <2>3. WhitespaceChain(lower, stop, stem, long) = <<"lower">>
    BY <1>8 DEF WhitespaceChain
  <2> QED BY <2>1, <2>2, <2>3
<1>9. CASE ~lower /\ stop /\ stem /\ long
  <2>1. chain = <<"stop", "stem", "long">>
    BY <1>9, TuplesGrow DEF Optional
  <2>2. SimpleChain(lower, stop, stem, long) = <<"stop", "stem", "long">>
    BY <1>9 DEF SimpleChain
  <2>3. WhitespaceChain(lower, stop, stem, long) = <<"stop", "stem", "long">>
    BY <1>9 DEF WhitespaceChain
  <2> QED BY <2>1, <2>2, <2>3
<1>10. CASE ~lower /\ stop /\ stem /\ ~long
  <2>1. chain = <<"stop", "stem">>
    BY <1>10, TuplesGrow DEF Optional
  <2>2. SimpleChain(lower, stop, stem, long) = <<"stop", "stem">>
    BY <1>10 DEF SimpleChain
  <2>3. WhitespaceChain(lower, stop, stem, long) = <<"stop", "stem">>
    BY <1>10 DEF WhitespaceChain
  <2> QED BY <2>1, <2>2, <2>3
<1>11. CASE ~lower /\ stop /\ ~stem /\ long
  <2>1. chain = <<"stop", "long">>
    BY <1>11, TuplesGrow DEF Optional
  <2>2. SimpleChain(lower, stop, stem, long) = <<"stop", "long">>
    BY <1>11 DEF SimpleChain
  <2>3. WhitespaceChain(lower, stop, stem, long) = <<"stop", "long">>
    BY <1>11 DEF WhitespaceChain
  <2> QED BY <2>1, <2>2, <2>3
<1>12. CASE ~lower /\ stop /\ ~stem /\ ~long
  <2>1. chain = <<"stop">>
    BY <1>12, TuplesGrow DEF Optional
  <2>2. SimpleChain(lower, stop, stem, long) = <<"stop">>
    BY <1>12 DEF SimpleChain
  <2>3. WhitespaceChain(lower, stop, stem, long) = <<"stop">>
    BY <1>12 DEF WhitespaceChain
  <2> QED BY <2>1, <2>2, <2>3
<1>13. CASE ~lower /\ ~stop /\ stem /\ long
  <2>1. chain = <<"stem", "long">>
    BY <1>13, TuplesGrow DEF Optional
  <2>2. SimpleChain(lower, stop, stem, long) = <<"stem", "long">>
    BY <1>13 DEF SimpleChain
  <2>3. WhitespaceChain(lower, stop, stem, long) = <<"stem", "long">>
    BY <1>13 DEF WhitespaceChain
  <2> QED BY <2>1, <2>2, <2>3
<1>14. CASE ~lower /\ ~stop /\ stem /\ ~long
  <2>1. chain = <<"stem">>
    BY <1>14, TuplesGrow DEF Optional
  <2>2. SimpleChain(lower, stop, stem, long) = <<"stem">>
    BY <1>14 DEF SimpleChain
  <2>3. WhitespaceChain(lower, stop, stem, long) = <<"stem">>
    BY <1>14 DEF WhitespaceChain
  <2> QED BY <2>1, <2>2, <2>3
<1>15. CASE ~lower /\ ~stop /\ ~stem /\ long
  <2>1. chain = <<"long">>
    BY <1>15, TuplesGrow DEF Optional
  <2>2. SimpleChain(lower, stop, stem, long) = <<"long">>
    BY <1>15 DEF SimpleChain
  <2>3. WhitespaceChain(lower, stop, stem, long) = <<"long">>
    BY <1>15 DEF WhitespaceChain
  <2> QED BY <2>1, <2>2, <2>3
<1>16. CASE ~lower /\ ~stop /\ ~stem /\ ~long
  <2>1. chain = << >>
    BY <1>16, TuplesGrow DEF Optional
  <2>2. SimpleChain(lower, stop, stem, long) = << >>
    BY <1>16 DEF SimpleChain
  <2>3. WhitespaceChain(lower, stop, stem, long) = << >>
    BY <1>16 DEF WhitespaceChain
  <2> QED BY <2>1, <2>2, <2>3
<1>17. QED
  BY <1>1, <1>2, <1>3, <1>4, <1>5, <1>6, <1>7, <1>8,
     <1>9, <1>10, <1>11, <1>12, <1>13, <1>14, <1>15, <1>16

(* Both copies of the chain are this one.                                     *)
LEMMA AnalyzerApplies ==
  ASSUME NEW o, NEW t
  PROVE  Analyzed(AnalyzerOf(o).base, AnalyzerOf(o).filters, t)
           = After(IF o.base = "simple" THEN Simple(t) ELSE Whitespace(t), Chain(o))
<1>1. AnalyzerOf(o).base = o.base /\ AnalyzerOf(o).filters = Chain(o)
  BY ChainsAreThese DEF AnalyzerOf, Chain
<1>2. QED
  BY <1>1 DEF Analyzed, After

(* An option that is off removes nothing.                                     *)
LEMMA KeptWhenAsked ==
  ASSUME NEW words \in Seq(Words), NEW on, NEW set
  PROVE  Kept(words, {i \in DOMAIN words : ~(on /\ words[i] \in set)})
           = IF on THEN Without(words, set) ELSE words
<1>1. CASE on
  <2>1. {i \in DOMAIN words : ~(on /\ words[i] \in set)}
          = {i \in DOMAIN words : ~(words[i] \in set)}
    BY <1>1, Zenon
  <2> QED BY <1>1, <2>1, Zenon DEF Without
<1>2. CASE ~on
  <2>1. {i \in DOMAIN words : ~(on /\ words[i] \in set)} = DOMAIN words
    BY <1>2, Zenon
  <2>2. Kept(words, DOMAIN words) = words
    BY KeptAll
  <2> QED BY <1>2, <2>1, <2>2, Zenon
<1>3. QED
  BY <1>1, <1>2, Zenon

(* register_text_analyzer, for every combination of options and any words.      *)
LEMMA OrderIsKept ==
  AnalyzersKeepOrder
<1> SUFFICES ASSUME NEW o \in Analyzers, NEW t \in Strings,
                    registry["custom"] = AnalyzerOf(o), \A i \in DOMAIN t : Len(t[i]) = 1
             PROVE  TokenizeText(registry, "custom", t) = WordsAnalyzed(o, t)
  BY DEF AnalyzersKeepOrder
<1> DEFINE words == [i \in DOMAIN t |-> t[i][1]]
           lowered == [i \in DOMAIN t |-> IF o.lower THEN Lower[t[i][1]] ELSE t[i][1]]
           kept == Kept(lowered, {i \in DOMAIN lowered :
                                    ~(o.stop # "none" /\ lowered[i] \in StopWords)})
           stemmed == [i \in DOMAIN kept |-> IF o.stem # "none" THEN Stem[kept[i]] ELSE kept[i]]
           short == Kept(stemmed, {i \in DOMAIN stemmed :
                                     ~(o.long /\ stemmed[i] \in LongWords)})
<1>1. t \in Seq(Seq(Words))
  BY TextEngineAssumption
<1>2. words \in Seq(Words) /\ Simple(t) = Tokens(words) /\ Whitespace(t) = Tokens(words)
  BY <1>1, WordsAreTokens
<1>3. DOMAIN words = DOMAIN t
  OBVIOUS
<1>4. lowered = IF o.lower THEN Lowered(words) ELSE words
  <2>1. CASE o.lower
    BY <2>1, Zenon DEF Lowered
  <2>2. CASE ~o.lower
    BY <2>2, Zenon
  <2> QED BY <2>1, <2>2, Zenon
<1> HIDE DEF words, lowered
<1>5. lowered \in Seq(Words)
  BY <1>2, <1>4, FilteredAreWords
<1>6. kept = IF o.stop # "none" THEN Without(lowered, StopWords) ELSE lowered
  BY <1>5, KeptWhenAsked, Zenon
<1> HIDE DEF kept
<1>7. kept \in Seq(Words)
  BY <1>5, <1>6, FilteredAreWords
<1>8. stemmed = IF o.stem # "none" THEN Stemmed(kept) ELSE kept
  <2>1. CASE o.stem # "none"
    BY <2>1, Zenon DEF Stemmed
  <2>2. CASE ~(o.stem # "none")
    <3>1. kept = [i \in DOMAIN kept |-> kept[i]]
      BY <1>7
    <3>2. stemmed = [i \in DOMAIN kept |-> kept[i]]
      BY <2>2, Zenon
    <3> QED BY <2>2, <3>1, <3>2, Zenon
  <2> QED BY <2>1, <2>2, Zenon
<1> HIDE DEF stemmed
<1>9. stemmed \in Seq(Words)
  BY <1>7, <1>8, FilteredAreWords
<1>10. short = IF o.long THEN Without(stemmed, LongWords) ELSE stemmed
  BY <1>9, KeptWhenAsked, Zenon
<1> HIDE DEF short
<1>11. After(Tokens(words), Chain(o)) = Tokens(short)
  BY <1>2, <1>4, <1>6, <1>8, <1>10, ChainApplies
<1>12. TokenizeText(registry, "custom", t) = After(Tokens(words), Chain(o))
  <2>1. TokenizeText(registry, "custom", t)
          = After(IF o.base = "simple" THEN Simple(t) ELSE Whitespace(t), Chain(o))
    BY AnalyzerApplies DEF TokenizeText
  <2> QED BY <1>2, <2>1
<1>13. QED
  BY <1>11, <1>12, Zenon DEF WordsAnalyzed, Tokens, lowered, kept, stemmed, short

--------------------------------------------------------------------------------
(* Fields and texts of documents.                                               *)

(* A field that is found by its name is one of the index's.                     *)
LEMMA FieldOfName ==
  ASSUME EngineInv, NEW f \in NamesOf(index)
  PROVE  Field(index, f) \in Fields /\ TypesOf(index)[f] = Field(index, f).type
<1>1. \E i \in DOMAIN index : index[i].name = f
  BY DEF NamesOf
<1>2. (CHOOSE i \in DOMAIN index : index[i].name = f) \in DOMAIN index
  BY <1>1
<1>3. \A i \in DOMAIN index : index[i] \in Fields
  BY DEF EngineInv, FieldsAreMade
<1>4. Field(index, f) \in Fields
  BY <1>2, <1>3, Zenon DEF Field
<1>5. TypesOf(index)[f] = Field(index, f).type
  BY DEF TypesOf
<1>6. QED
  BY <1>4, <1>5

(* The texts of a document were the texts of a term.                            *)
LEMMA TextsAreStrings ==
  ASSUME EngineInv, NEW doc \in Made(index), NEW f \in NamesOf(index),
         Field(index, f).type = "str"
  PROVE  ValuesIn(doc, f) \subseteq Strings
<1> DEFINE types == TypesOf(index)
<1>1. types[f] = "str"
  BY FieldOfName
<1>2. ASSUME f \in DOMAIN doc
      PROVE  \E x \in Terms : doc[f] = StrField(x)
  <2>1. \A d \in Docs : \A g \in Known(types, d) : d.v[g] \in Terms
    BY TextEngineAssumption DEF Known
  <2>2. CASE doc \in {[g \in Known(types, d) |-> SingleField(types[g], d.v[g])] : d \in Docs}
    <3>1. PICK d \in Docs : doc = [g \in Known(types, d) |-> SingleField(types[g], d.v[g])]
      BY <2>2
    <3> HIDE DEF types
    <3>2. f \in Known(types, d) /\ doc[f] = SingleField("str", d.v[f])
      BY <1>1, <1>2, <3>1
    <3>3. SingleField("str", d.v[f]) = StrField(d.v[f])
      BY DEF SingleField
    <3> QED BY <2>1, <3>2, <3>3
  <2>3. CASE doc \in {[g \in Known(types, d) |-> WithSchemaField(types[g], d.v[g])] : d \in Docs}
    <3>1. PICK d \in Docs : doc = [g \in Known(types, d) |-> WithSchemaField(types[g], d.v[g])]
      BY <2>3
    <3> HIDE DEF types
    <3>2. f \in Known(types, d) /\ doc[f] = WithSchemaField("str", d.v[f])
      BY <1>1, <1>2, <3>1
    <3>3. WithSchemaField("str", d.v[f]) = StrField(d.v[f])
      BY DEF WithSchemaField
    <3> QED BY <2>1, <3>2, <3>3
  <2>4. CASE doc \in {[g \in Known(types, d) |-> AddField(types[g], d.v[g]).values] :
                        d \in {e \in Docs : Accepted(types, e)}}
    <3>1. PICK d \in Docs : doc = [g \in Known(types, d) |-> AddField(types[g], d.v[g]).values]
      BY <2>4
    <3> HIDE DEF types
    <3>2. f \in Known(types, d) /\ doc[f] = AddField("str", d.v[f]).values
      BY <1>1, <1>2, <3>1
    <3>3. AddField("str", d.v[f]).values = StrField(d.v[f])
      BY DEF AddField, OrRefused, Refused, Taken, Nothing
    <3> QED BY <2>1, <3>2, <3>3
  <2> QED BY <2>2, <2>3, <2>4 DEF Made
<1>3. \A x \in Terms : \A i \in DOMAIN StrField(x) : StrField(x)[i].v \in Strings
  BY TextEngineAssumption DEF StrField, One, Nothing
<1>4. CASE f \in DOMAIN doc
  <2>1. PICK x \in Terms : doc[f] = StrField(x)
    BY <1>2, <1>4
  <2>2. \A i \in DOMAIN doc[f] : doc[f][i].v \in Strings
    BY <1>3, <2>1
  <2> QED BY <2>2, <1>4 DEF ValuesIn
<1>5. CASE f \notin DOMAIN doc
  BY <1>5 DEF ValuesIn
<1>6. QED
  BY <1>4, <1>5

(* The words of a text, and the tokens the index makes of it.                   *)
LEMMA WordsOfText ==
  ASSUME NEW text \in Seq(Seq(Words))
  PROVE  AllWords(text) \in Seq(Words)
<1>1. CASE text = <<>>
  <2>1. Len(<<>>) = 0
    OBVIOUS
  <2>2. AllWords(<<>>) = <<>>
    BY <2>1, Zenon DEF FlattenSeq, AllWords
  <2>3. <<>> \in Seq(Words)
    OBVIOUS
  <2> QED BY <1>1, <2>2, <2>3, Zenon
<1>2. CASE text # <<>>
  BY <1>2, FlattenSeqJoins DEF AllWords
<1>3. QED
  BY <1>1, <1>2

(* The tokens of a text are its words, lowered, but for the long ones.        *)
LEMMA TokensOfText ==
  ASSUME NEW text \in Seq(Seq(Words)), NEW tokenizer
  PROVE  LET tokens == IndexTokens(tokenizer, text) IN
         /\ \E S : tokens \in Seq(S)
         /\ tokenizer # "raw" =>
              /\ Len(tokens) = Len(AllWords(text))
              /\ \A i \in 1..Len(tokens) :
                   tokens[i] = IF AllWords(text)[i] \in LongWords THEN Gap
                               ELSE Word(Lower[AllWords(text)[i]])
<1> DEFINE tokens == IndexTokens(tokenizer, text)
           words == AllWords(text)
<1>1. CASE tokenizer = "raw"
  <2>1. tokens = <<text>>
    BY <1>1 DEF IndexTokens, Raw
  <2>2. <<text>> \in Seq({text})
    OBVIOUS
  <2> QED BY <1>1, <2>1, <2>2
<1>2. CASE tokenizer # "raw"
  <2>1. words \in Seq(Words)
    BY WordsOfText
  <2>2. \A i \in DOMAIN words :
          /\ In(LongWords, Word(words[i])) <=> words[i] \in LongWords
          /\ LowerText(Word(words[i])) = Word(Lower[words[i]])
    BY OneWordTokens
  <2>3. tokens = [i \in DOMAIN words |->
                    IF In(LongWords, Word(words[i])) THEN Gap ELSE LowerText(Word(words[i]))]
    BY <1>2 DEF IndexTokens, Simple, MapSeq
  <2> HIDE DEF tokens, words
  <2>4. Len(words) \in Nat /\ DOMAIN words = 1..Len(words)
    BY <2>1
  <2>5. tokens = [i \in 1..Len(words) |->
                    IF words[i] \in LongWords THEN Gap ELSE Word(Lower[words[i]])]
    BY <2>2, <2>3, <2>4
  <2> DEFINE S == {Gap} \cup {Word(Lower[w]) : w \in Words}
  <2>6. \A i \in 1..Len(words) :
          (IF words[i] \in LongWords THEN Gap ELSE Word(Lower[words[i]])) \in S
    BY <2>1, <2>4
  <2> HIDE DEF S
  <2>7. Len(tokens) = Len(words) /\ tokens \in Seq(S)
    BY <2>4, <2>5, <2>6
  <2>8. \A i \in 1..Len(tokens) :
          tokens[i] = IF words[i] \in LongWords THEN Gap ELSE Word(Lower[words[i]])
    BY <2>5, <2>7
  <2> QED BY <2>7, <2>8 DEF tokens, words
<1>3. QED
  BY <1>1, <1>2

--------------------------------------------------------------------------------
(* The deletion and the query by the same text.                                 *)

(* What occurs in a sequence is in it.                                          *)
LEMMA OccurringIsIn ==
  ASSUME NEW R, NEW s \in Seq(R), NEW S, NEW t \in Seq(S), OccursIn(s, t)
  PROVE  \A j \in DOMAIN s : \E i \in DOMAIN t : t[i] = s[j]
<1>1. PICK i \in 0..(Len(t) - Len(s)) : SubSeq(t, i + 1, i + Len(s)) = s
  BY DEF OccursIn
<1>2. i \in Nat /\ i + Len(s) <= Len(t)
  BY <1>1
<1>3. \A j \in 1..Len(s) : i + j \in 1..Len(t)
  BY <1>2
<1>4. \A j \in 1..Len(s) : SubSeq(t, i + 1, i + Len(s))[j] = t[i + j]
  BY <1>2
<1>5. \A j \in 1..Len(s) : i + j \in DOMAIN t /\ t[i + j] = s[j]
  BY <1>1, <1>3, <1>4
<1>6. QED
  BY <1>5

(* What the query for the text of a deletion is asked for.                    *)
Asked(t) == IF Len(Chunks(t)) = 1 THEN Chunks(t)[1] ELSE t

(* A text the deletion takes is one that the query finds.                     *)
LEMMA DeletedIsFound ==
  ASSUME NEW field, NEW text \in Seq(Seq(Words)), NEW t \in Strings,
         Matches(DeleteTerm(field, t), field, text)
  PROVE  Matches(QueryTerm(field, Asked(t)), field, text)
<1> DEFINE tokens == IndexTokens(field.tokenizer, text)
           chunks == Chunks(t)
           all == LowerAll(chunks)
<1>1. field.indexed
  BY DEF Matches
<1>2. t \in Seq(Seq(Words))
  BY TextEngineAssumption
<1>3. PICK S : tokens \in Seq(S)
  BY TokensOfText
<1> DEFINE n == Len(Solid(t))
           R == {LowerText(<<c>>) : c \in Seq(Words)}
<1>4. /\ n \in Nat /\ Len(chunks) = n /\ DOMAIN chunks = 1..n
      /\ \A i \in 1..n : Solid(t)[i] \in Seq(Words) /\ chunks[i] = <<Solid(t)[i]>>
  <2>1. Solid(t) \in Seq(Seq(Words))
    BY <1>2, ChunksOfText
  <2>2. n \in Nat /\ \A i \in 1..n : Solid(t)[i] \in Seq(Words)
    BY <2>1
  <2> QED BY <1>2, <2>2, ChunksOfText
<1>5. all \in Seq(R) /\ Len(all) = n
  <2>1. all = [i \in 1..n |-> LowerText(chunks[i])]
    BY <1>4 DEF LowerAll, MapSeq
  <2>2. \A i \in 1..n : LowerText(chunks[i]) \in R
    <3>1. \A c \in Seq(Words) : LowerText(<<c>>) \in R
      OBVIOUS
    <3> HIDE DEF R
    <3> QED BY <3>1, <1>4
  <2> HIDE DEF all, R, n, chunks
  <2> QED BY <1>4, <2>1, <2>2
<1> HIDE DEF tokens, all, R, n, chunks
<1>6. CASE n = 1
  <2>1. DeleteTerm(field, t) = Term(LowerText(chunks[1]))
    BY <1>1, <1>4, <1>6 DEF DeleteTerm, chunks
  <2>2. Asked(t) = chunks[1]
    BY <1>4, <1>6 DEF Asked, chunks
  <2>3. QueryTerm(field, chunks[1]) = Term(LowerText(chunks[1]))
    <3>1. chunks[1] = <<Solid(t)[1]>> /\ Solid(t)[1] \in Seq(Words)
      BY <1>4, <1>6
    <3>2. PICK c \in Seq(Words) : chunks[1] = <<c>>
      BY <3>1
    <3>3. <<c>> \in Seq(Seq(Words)) /\ Len(<<c>>) <= 1
      OBVIOUS
    <3>4. Solid(<<c>>) \in Seq(Seq(Words)) /\ Len(Chunks(<<c>>)) = Len(Solid(<<c>>))
      BY <3>3, ChunksOfText
    <3>5. Len(Chunks(<<c>>)) <= 1
      BY <3>3, ChunksOfText
    <3>6. Len(Chunks(<<c>>)) \in Nat
      BY <3>4
    <3>7. ~(Len(Chunks(<<c>>)) > 1)
      BY <3>5, <3>6
    <3>8. QueryTerm(field, <<c>>) = Term(LowerText(<<c>>))
      BY <1>1, <3>7 DEF QueryTerm
    <3> QED BY <3>2, <3>8
  <2> QED BY <2>1, <2>2, <2>3
<1>7. CASE n # 1 /\ field.positions
  <2>1. DeleteTerm(field, t) = Phrase(all)
    BY <1>1, <1>4, <1>7 DEF DeleteTerm, all, chunks
  <2>2. all # <<>> /\ OccursIn(all, tokens)
    BY <2>1 DEF Matches, Phrase, tokens
  <2>3. \A j \in DOMAIN all : \E i \in DOMAIN tokens : tokens[i] = all[j]
    BY <1>3, <1>5, <2>2, OccurringIsIn
  <2>4. n > 1
    BY <1>4, <1>5, <1>7, <2>2
  <2>5. QueryTerm(field, Asked(t)) = Must(all)
    BY <1>1, <1>4, <2>4 DEF QueryTerm, Asked, all, chunks
  <2> QED BY <1>1, <2>2, <2>3, <2>5 DEF Matches, Must, tokens
<1>8. CASE n # 1 /\ ~field.positions
  <2>1. DeleteTerm(field, t) = Must(all)
    BY <1>1, <1>4, <1>8 DEF DeleteTerm, all, chunks
  <2>2. all # <<>>
    BY <2>1 DEF Matches, Must
  <2>3. n > 1
    BY <1>4, <1>5, <1>8, <2>2
  <2>4. QueryTerm(field, Asked(t)) = Must(all)
    BY <1>1, <1>4, <2>3 DEF QueryTerm, Asked, all, chunks
  <2> QED BY <2>1, <2>4
<1>9. QED
  BY <1>6, <1>7, <1>8

(* The same, for every document, field and text.                              *)
LEMMA DeletionsAreQueries ==
  EngineInv => DeletionIsAQuery
<1> SUFFICES ASSUME EngineInv, NEW i \in DOMAIN live, NEW f \in NamesOf(index), NEW t \in Strings,
                    Field(index, f).type = "str",
                    FoundBy(DeleteTerm(Field(index, f), t), f, live[i])
             PROVE  FoundBy(QueryTerm(Field(index, f), Asked(t)), f, live[i])
  BY DEF DeletionIsAQuery, Asked
<1>1. live[i] \in Made(index)
  BY DEF EngineInv, DocumentsAreMade
<1>2. PICK text \in ValuesIn(live[i], f) : Matches(DeleteTerm(Field(index, f), t), Field(index, f), text)
  BY DEF FoundBy
<1>3. text \in Seq(Seq(Words))
  BY <1>1, <1>2, TextsAreStrings, TextEngineAssumption
<1>4. Matches(QueryTerm(Field(index, f), Asked(t)), Field(index, f), text)
  BY <1>2, <1>3, DeletedIsFound
<1>5. QED
  BY <1>2, <1>4 DEF FoundBy

--------------------------------------------------------------------------------
(* Searches for the words of a document.                                        *)

(* Only a text field of the default tokenizer has positions.                  *)
LEMMA FieldsWithPositions ==
  ASSUME NEW field \in Fields, field.positions
  PROVE  field.tokenizer = "default" /\ field.indexed
<1>1. CASE field \in {TextField(f, c[1], c[2]) : f \in TextNames, c \in TextChoices}
  <2>1. PICK f \in TextNames, c \in TextChoices : field = TextField(f, c[1], c[2])
    BY <1>1
  <2>2. field.positions = (c[2] = NoTokenizer /\ c[1] = "FAST_STORED")
    BY <2>1, Zenon DEF TextField
  <2>3. c[2] = NoTokenizer /\ c[1] = "FAST_STORED"
    BY <2>2
  <2>4. TextField(f, "FAST_STORED", NoTokenizer).tokenizer = "default"
    BY DEF TextField
  <2>5. TextField(f, "FAST_STORED", NoTokenizer).indexed = ("FAST_STORED" # "STORED")
    BY Zenon DEF TextField
  <2> QED BY <2>1, <2>3, <2>4, <2>5
<1>2. CASE field \in {OtherField(f, type, options) :
                        f \in OtherNames, type \in OtherTypes, options \in OtherOptions}
  <2>1. PICK f \in OtherNames, type \in OtherTypes, options \in OtherOptions :
             field = OtherField(f, type, options)
    BY <1>2
  <2>2. field.positions = FALSE
    BY <2>1, Zenon DEF OtherField
  <2> QED BY <2>2
<1>3. QED
  BY <1>1, <1>2 DEF Fields

(* The words of a search are the words of its text, lowered.                  *)
LEMMA SearchedWords ==
  ASSUME EngineInv, "default" \in DOMAIN registry, NEW part \in Seq(Seq(Words))
  PROVE  SearchWords(registry, part)
           = [i \in DOMAIN AllWords(part) |-> Word(Lower[AllWords(part)[i]])]
<1> DEFINE words == AllWords(part)
<1>1. registry["default"] = [base |-> "simple", filters |-> <<>>]
  BY DEF EngineInv, DefaultIsSimple
<1>2. TokenizeText(registry, "default", part) = Analyzed("simple", <<>>, part)
  BY <1>1 DEF TokenizeText
<1>3. Analyzed("simple", <<>>, part) = After(Simple(part), <<>>)
  BY DEF Analyzed, After
<1>4. TokenizeText(registry, "default", part) = Simple(part)
  BY <1>2, <1>3, AfterNone
<1>5. LowerAll(Simple(part)) = [i \in DOMAIN words |-> LowerText(Word(words[i]))]
  BY DEF LowerAll, MapSeq, Simple
<1>6. \A i \in DOMAIN words : LowerText(Word(words[i])) = Word(Lower[words[i]])
  BY OneWordTokens
<1> HIDE DEF words
<1>7. SearchWords(registry, part) = [i \in DOMAIN words |-> Word(Lower[words[i]])]
  BY <1>4, <1>5, <1>6 DEF SearchWords
<1>8. QED
  BY <1>7 DEF words

(* A sequence that stands in another occurs in it.                              *)
LEMMA OccursFrom ==
  ASSUME NEW R, NEW s \in Seq(R), NEW S, NEW t \in Seq(S),
         NEW start \in Nat, start + Len(s) <= Len(t),
         \A i \in 1..Len(s) : t[start + i] = s[i]
  PROVE  OccursIn(s, t)
<1>1. start \in 0..(Len(t) - Len(s)) /\ Len(s) \in Nat
  OBVIOUS
<1> DEFINE p == SubSeq(t, start + 1, start + Len(s))
<1>2. p \in Seq(S) /\ Len(p) = Len(s)
  BY <1>1
<1>3. \A i \in 1..Len(s) : p[i] = t[start + i]
  BY <1>1
<1> HIDE DEF p
<1>4. p = s
  BY <1>2, <1>3
<1>5. QED
  BY <1>1, <1>4 DEF OccursIn, p

(* Lowered words that occur in the tokens of a field are found in any mode.     *)
LEMMA FoundInAnyMode ==
  ASSUME NEW field, field.indexed, field.positions, NEW text, NEW part, NEW mode \in Modes,
         NEW words, words \in Seq({Word(w) : w \in Words}), words # <<>>,
         NEW S, IndexTokens(field.tokenizer, text) \in Seq(S),
         NEW start \in Nat, start + Len(words) <= Len(IndexTokens(field.tokenizer, text)),
         \A i \in 1..Len(words) : IndexTokens(field.tokenizer, text)[start + i] = words[i]
  PROVE  SearchWords(registry, part) = words
           => Matches(BuildQuery(registry, part, mode), field, text)
<1> DEFINE tokens == IndexTokens(field.tokenizer, text)
           n == Len(words)
<1> HIDE DEF tokens
<1> SUFFICES ASSUME SearchWords(registry, part) = words
             PROVE  Matches(BuildQuery(registry, part, mode), field, text)
  OBVIOUS
<1>1. tokens \in Seq(S) /\ n \in Nat \ {0} /\ DOMAIN words = 1..n /\ start + n <= Len(tokens)
  BY DEF tokens
<1>2. \A i \in 1..n : start + i \in DOMAIN tokens /\ tokens[start + i] = words[i]
  BY <1>1 DEF tokens
<1>3. \A i \in DOMAIN words : \E j \in DOMAIN tokens : tokens[j] = words[i]
  BY <1>1, <1>2
<1>4. OccursIn(words, tokens)
  BY <1>1, <1>2, OccursFrom
<1>5. \A i \in DOMAIN words : \E j \in DOMAIN tokens : StartsWith(tokens[j], words[i])
  <2> TAKE i \in DOMAIN words
  <2>1. start + i \in DOMAIN tokens /\ tokens[start + i] = words[i]
    BY <1>1, <1>2
  <2>2. PICK w \in Words : words[i] = Word(w)
    OBVIOUS
  <2>3. StartsWith(Word(w), Word(w))
    <3>1. w \in WordsFrom[w]
      BY TextIndexAssumption
    <3> QED BY <3>1, OneWordTokens DEF StartsWith
  <2> QED BY <2>1, <2>2, <2>3
<1>6. \E i \in DOMAIN words : \E j \in DOMAIN tokens : tokens[j] = words[i]
  <2>1. 1 \in DOMAIN words
    BY <1>1
  <2> QED BY <1>3, <2>1
<1>7. CASE mode = "phrase" /\ Len(words) > 1
  <2>1. BuildQuery(registry, part, mode) = Phrase(words)
    BY <1>7 DEF BuildQuery
  <2> QED BY <2>1, <1>1, <1>4 DEF Matches, Phrase, tokens
<1>8. CASE mode = "prefix"
  <2>1. BuildQuery(registry, part, mode) = Starting(words)
    BY <1>8 DEF BuildQuery
  <2> QED BY <2>1, <1>1, <1>5 DEF Matches, Starting, tokens
<1>9. CASE mode = "any"
  <2>1. BuildQuery(registry, part, mode) = Should(words)
    BY <1>9 DEF BuildQuery
  <2> QED BY <2>1, <1>1, <1>6 DEF Matches, Should, tokens
<1>10. CASE mode = "all" \/ (mode = "phrase" /\ ~(Len(words) > 1))
  <2>1. BuildQuery(registry, part, mode) = Must(words)
    BY <1>10 DEF BuildQuery
  <2> QED BY <2>1, <1>1, <1>3 DEF Matches, Must, tokens
<1>11. QED
  BY <1>7, <1>8, <1>9, <1>10 DEF Modes

(* A search for consecutive words of a text finds it.                         *)
LEMMA SearchesFind ==
  EngineInv => SearchFindsContent
<1> SUFFICES ASSUME EngineInv, NEW i \in DOMAIN live, NEW f \in NamesOf(index), NEW mode \in Modes,
                    Field(index, f).type = "str", Field(index, f).positions,
                    "default" \in DOMAIN registry,
                    NEW text \in ValuesIn(live[i], f), NEW a \in DOMAIN text, NEW b \in DOMAIN text,
                    AllWords(SubSeq(text, a, b)) # <<>>,
                    \A j \in DOMAIN AllWords(SubSeq(text, a, b)) :
                      AllWords(SubSeq(text, a, b))[j] \notin LongWords
             PROVE  Matches(BuildQuery(registry, SubSeq(text, a, b), mode), Field(index, f), text)
  BY DEF SearchFindsContent
<1> DEFINE field == Field(index, f)
           part == SubSeq(text, a, b)
           words == AllWords(part)
           whole == AllWords(text)
           tokens == IndexTokens(field.tokenizer, text)
<1>1. live[i] \in Made(index)
  BY DEF EngineInv, DocumentsAreMade
<1>2. text \in Seq(Seq(Words))
  BY <1>1, TextsAreStrings, TextEngineAssumption
<1>3. field.tokenizer = "default" /\ field.indexed
  BY FieldOfName, FieldsWithPositions
<1>4. a \in 1..Len(text) /\ b \in 1..Len(text) /\ part \in Seq(Seq(Words))
  BY <1>2
<1>5. a <= b
  <2> SUFFICES ASSUME ~(a <= b) PROVE FALSE
    OBVIOUS
  <2>1. part = <<>>
    BY <1>2, <1>4
  <2>2. FlattenSeq(<<>>) = <<>>
    <3>1. Len(<<>>) = 0
      OBVIOUS
    <3> QED BY <3>1, Zenon DEF FlattenSeq
  <2> QED BY <2>1, <2>2 DEF AllWords
<1>6. words \in Seq(Words) /\ Occurs(words, whole) /\ whole \in Seq(Words)
  BY <1>2, <1>4, <1>5, PartOccurs, WordsOfText DEF AllWords
<1>7. SearchWords(registry, part) = [j \in DOMAIN words |-> Word(Lower[words[j]])]
  BY <1>4, SearchedWords
<1>8. /\ \E S : tokens \in Seq(S)
      /\ Len(tokens) = Len(whole)
      /\ \A j \in 1..Len(tokens) :
           tokens[j] = IF whole[j] \in LongWords THEN Gap ELSE Word(Lower[whole[j]])
  BY <1>2, <1>3, TokensOfText
<1>9. words # <<>> /\ \A j \in DOMAIN words : words[j] \notin LongWords
  OBVIOUS
<1> HIDE DEF field, part, words, whole, tokens
<1>10. PICK start \in Nat : /\ start + Len(words) <= Len(whole)
                            /\ \A m \in 1..Len(words) : whole[start + m] = words[m]
  BY <1>6 DEF Occurs
<1> DEFINE n == Len(words)
           found == [j \in 1..n |-> Word(Lower[words[j]])]
<1>11. n \in Nat \ {0} /\ DOMAIN words = 1..n /\ \A j \in 1..n : Lower[words[j]] \in Words
  BY <1>6, <1>9, TextIndexAssumption
<1>12. SearchWords(registry, part) = found
  BY <1>7, <1>11
<1>13. found \in Seq({Word(w) : w \in Words}) /\ Len(found) = n /\ found # <<>>
  BY <1>11
<1>14. \A j \in 1..n : tokens[start + j] = found[j]
  <2> TAKE j \in 1..n
  <2>1. start + j \in 1..Len(tokens) /\ whole[start + j] = words[j] /\ words[j] \notin LongWords
    BY <1>8, <1>9, <1>10, <1>11
  <2>2. tokens[start + j] = Word(Lower[words[j]])
    BY <1>8, <2>1
  <2> QED BY <2>2
<1>15. field.indexed /\ field.positions /\ start + Len(found) <= Len(tokens)
  BY <1>3, <1>8, <1>10, <1>13 DEF field
<1> HIDE DEF n, found
<1>16. PICK S : tokens \in Seq(S)
  BY <1>8
<1>17. \A j \in 1..Len(found) : tokens[start + j] = found[j]
  BY <1>13, <1>14
<1>18. Matches(BuildQuery(registry, part, mode), field, text)
  BY <1>12, <1>13, <1>15, <1>16, <1>17, FoundInAnyMode DEF tokens
<1>19. QED
  BY <1>18 DEF field, part

--------------------------------------------------------------------------------
(* The theorems.                                                                *)

(* The types of a schema's fields.                                              *)
LEMMA TypesOfFields ==
  ASSUME EngineInv, NEW i \in DOMAIN schema
  PROVE  schema[i].type \in FieldTypes
<1>1. schema[i] \in Fields
  BY DEF EngineInv, FieldsAreMade
<1>2. CASE schema[i] \in {TextField(f, c[1], c[2]) : f \in TextNames, c \in TextChoices}
  BY <1>2 DEF TextField, FieldTypes
<1>3. CASE schema[i] \in {OtherField(f, type, options) :
                            f \in OtherNames, type \in OtherTypes, options \in OtherOptions}
  <2>1. PICK f \in OtherNames, type \in OtherTypes, options \in OtherOptions :
               schema[i] = OtherField(f, type, options)
    BY <1>3
  <2>2. OtherField(f, type, options).type = type
    BY DEF OtherField
  <2>3. schema[i].type = type
    BY <2>1, <2>2, Zenon
  <2> QED BY <2>3, TextEngineAssumption
<1>4. QED
  BY <1>1, <1>2, <1>3 DEF Fields

(* The three copies of the conversion, for every field and term.                *)
LEMMA ConversionsAgree ==
  EngineInv => CopiesAgree
<1> SUFFICES ASSUME EngineInv, NEW i \in DOMAIN schema, NEW x \in Terms
             PROVE  LET type == schema[i].type
                        added == AddField(type, x)
                    IN  /\ ValidField(type, x) => added.ok
                        /\ added.ok /\ type \in AgreeingTypes =>
                             /\ added.values = SingleField(type, x)
                             /\ added.values = WithSchemaField(type, x)
  BY DEF CopiesAgree
<1>1. schema[i].type \in FieldTypes
  BY TypesOfFields
<1>2. QED
  BY <1>1, ValidIsTaken, AddsAgree

(* The values of deletions and of queries, for every field and term.            *)
LEMMA StoredAreFound ==
  EngineInv => ValuesAreFound
<1> SUFFICES ASSUME EngineInv, NEW i \in DOMAIN schema, NEW x \in Terms, schema[i].type # "str"
             PROVE  LET type == schema[i].type
                        deleted == DeleteValue(type, x)
                    IN  /\ deleted.ok /\ SingleField(type, x) # Nothing =>
                             deleted.values = SingleField(type, x)
                        /\ ~IsStr(x) /\ AddField(type, x).ok /\ type \in {"u64", "i64", "bool"} =>
                             deleted.ok
                        /\ IsStr(x) /\ deleted.ok => deleted = QueryValue(type, x)
                        /\ type \in RangeTypes /\ x # Nil /\ IsEnd(type, x) =>
                             \A y \in Terms : SingleField(type, y) # Nothing =>
                               (InRange(x, x, SingleField(type, y)[1].v)
                                  <=> SingleField(type, y) = SingleField(type, x))
  BY DEF ValuesAreFound
<1>1. schema[i].type \in FieldTypes
  BY TypesOfFields
<1>2. QED
  BY <1>1, DeletedAsStored, StoredIsDeletable, DeletedAsQueried, RangeOfOne

(* Every analyzer, over every text of words between spaces.                     *)
LEMMA AnalyzersInOrder ==
  AnalyzersKeepOrder
<1>1. QED
  BY OrderIsKept

(* copy_existing_fields_to_builder with document.rs:473, 591: a document added  *)
(* with a handle that has grown is held as the index's own schema makes it.     *)
THEOREM DocumentsFit ==
  Spec => []DocumentsFitIndex
<1>1. EngineInv => DocumentsFitIndex
  <2> SUFFICES ASSUME EngineInv, NEW i \in DOMAIN live
               PROVE  live[i] \in Made(index)
    BY DEF DocumentsFitIndex
  <2>1. live \in Seq(Made(index))
    BY DEF EngineInv, DocumentsAreMade
  <2> QED BY <2>1
<1>2. QED
  BY <1>1, EngineAlways, PTL

(* writer_add_document, _with_schema and _batch: what validates is taken, and   *)
(* all three store it alike.                                                    *)
THEOREM CopiesStoreAlike ==
  Spec => []CopiesAgree
<1>1. QED
  BY ConversionsAgree, EngineAlways, PTL

(* writer_delete_term, query_term and the range queries look for the value that *)
(* was stored for the same term.                                                *)
THEOREM StoredValuesAreFound ==
  Spec => []ValuesAreFound
<1>1. QED
  BY StoredAreFound, EngineAlways, PTL

(* writer_delete_term deletes no document that query_term does not find, for    *)
(* the text as it is typed or, of one word, without white space around it.      *)
THEOREM DeletionsAreFound ==
  Spec => []DeletionIsAQuery
<1>1. QED
  BY DeletionsAreQueries, EngineAlways, PTL

(* A search of VialKeeper finds the documents that have its words, in any mode. *)
THEOREM ContentIsFound ==
  Spec => []SearchFindsContent
<1>1. QED
  BY SearchesFind, EngineAlways, PTL

(* register_text_analyzer: each of its 32 chains filters what it was asked to,  *)
(* in the order that makes sense of stop words and stems.                       *)
THEOREM AnalyzersFilterInOrder ==
  Spec => []AnalyzersKeepOrder
<1>1. QED
  BY AnalyzersInOrder, PTL
================================================================================
