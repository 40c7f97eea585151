------------------------------ MODULE TextEngine ------------------------------
(* One index of tantivy_ex: a schema grown one field at a time (schema.rs), an *)
(* index created from it (index.rs) and its writer behind a mutex              *)
(* (document.rs).  DocumentFields has the conversion of a document, TextIndex  *)
(* the tokens and the queries.  Tantivy is external: its writer applies        *)
(* additions and deletions in order, and rollback drops what is not committed. *)
EXTENDS DocumentFields, TextIndex

CONSTANTS TextNames, OtherNames, \* names of text fields and of the others
          TextChoices, \* << options, tokenizer >> of text fields; NoTokenizer for the
          NoTokenizer, \* builder without one
          OtherTypes,  \* types of the other fields
          OtherOptions,\* their options
          Terms,       \* values a deletion is given
          Docs,        \* documents: maps from names to terms
          Analyzers,   \* option records of register_text_analyzer
          Languages,   \* what parse_language knows
          MaxFields,   \* bound: fields of the schema
          MaxDocs      \* bound: documents of the index

ASSUME TextEngineAssumption ==
  /\ OtherTypes \subseteq FieldTypes \ {"str"}
  /\ MaxFields \in Nat /\ MaxDocs \in Nat
  /\ \A d \in Docs : d.t = "map" /\ \A f \in DOMAIN d.v : d.v[f] \in Terms
  /\ Strings \subseteq Seq(Seq(Words))
  /\ \A x \in Terms : /\ IsStr(x) => x.v \in Strings
                      /\ x.t = "float" => x.v \in Int

VARIABLES registry,  \* the process-wide tokenizer manager: name to analyzer
          schema,    \* the fields of the schema handle, in order
          index,     \* the schema the index was created with; << >> before
          live,      \* the documents the writer's operations leave, in order
          committed, \* the documents of the last commit
          writer     \* "works"; "poisoned" after a call that panicked while it
                     \* held the mutex; "failed" after a document it cannot index

vars == <<registry, schema, index, live, committed, writer>>
writing == <<live, committed, writer>>

NamesOf(fields) == {fields[i].name : i \in DOMAIN fields}
Field(fields, f) == fields[CHOOSE i \in DOMAIN fields : fields[i].name = f]
TypesOf(fields) == [f \in NamesOf(fields) |-> Field(fields, f).type]

-------------------------------------------------------------------------------
(* Schemas.                                                                    *)
\* add_text_field, and add_text_field_with_tokenizer, which knows fewer options.
TextField(f, options, tokenizer) ==
  [name |-> f, type |-> "str",
   tokenizer |-> IF tokenizer = NoTokenizer THEN "default" ELSE tokenizer,
   indexed |-> options # "STORED",
   positions |-> options = "FAST_STORED" /\ tokenizer = NoTokenizer,
   stored |-> \/ options \in {"TEXT_STORED", "STORED"}
              \/ options = "FAST_STORED" /\ tokenizer = NoTokenizer]

\* The other add_*_field functions: what is not "STORED" or "FAST" is indexed;
\* the bytes field is stored by default, and a facet field is always indexed.
OtherField(f, type, options) ==
  [name |-> f, type |-> type, tokenizer |-> NoTokenizer,
   indexed |-> CASE type = "facet" -> TRUE
                 [] type = "json" -> FALSE
                 [] type = "bytes" -> options \in {"INDEXED", "INDEXED_STORED"}
                 [] OTHER -> options \notin {"STORED", "FAST", "FAST_STORED"},
   positions |-> FALSE,
   stored |-> CASE type = "facet" -> FALSE
                [] type = "bytes" -> options \notin {"INDEXED", "FAST"}
                [] type = "json" -> options = "STORED"
                [] OTHER -> options \in {"STORED", "FAST_STORED", "INDEXED_STORED"}]

\* Variant: integers of all kinds are copied as signed ones.
SignedArms == [type \in FieldTypes |-> IF type = "u64" THEN "i64" ELSE type]

\* copy_existing_fields_to_builder: the builder's function in the arm of each
\* type.  All of them are given the field's name and a clone of its options.
CopyArms == [str |-> "str", u64 |-> "u64", i64 |-> "i64", f64 |-> "f64", bool |-> "bool",
             date |-> "date", facet |-> "facet", bytes |-> "bytes", json |-> "json", ip |-> "ip"]
CopyExistingFields(fields) ==
  [i \in DOMAIN fields |-> [fields[i] EXCEPT !.type = CopyArms[fields[i].type]]]

\* A name the schema has already panics in the builder, and no schema is made.
\* Bound: no schema next to an analyzer of the caller's own; the two never meet,
\* since an index has tokenizers of its own.
AddSchemaField(field) ==
  /\ Len(schema) < MaxFields
  /\ DOMAIN registry \subseteq DOMAIN DefaultTokenizers
  /\ field.name \notin NamesOf(schema)
  /\ schema' = Append(CopyExistingFields(schema), field)
  /\ UNCHANGED <<registry, index, writing>>

AddTextField ==
  \E f \in TextNames, c \in TextChoices : AddSchemaField(TextField(f, c[1], c[2]))

AddOtherField ==
  \E f \in OtherNames, type \in OtherTypes, options \in OtherOptions :
    AddSchemaField(OtherField(f, type, options))

\* create_in_ram and create_in_dir: the index keeps the schema of that moment.
Create == index' = schema /\ UNCHANGED <<registry, schema, writing>>

\* create_in_dir_nosync, in a directory without an index.
CreateIndex ==
  /\ index = << >>
  /\ schema # << >>
  /\ Create

\* open_in_dir_nosync and a new writer: the old one was dropped, with what it had
\* not committed.
Reopen ==
  /\ index # << >>
  /\ live' = committed
  /\ writer' = "works"
  /\ UNCHANGED <<registry, schema, index, committed>>

\* An index that is there is opened only under the schema it was created with.
OpenOrCreate == CreateIndex \/ (index = schema /\ Reopen)

-------------------------------------------------------------------------------
(* The tokenizer manager of the process.                                       *)
\* A name that is registered again has the new analyzer.
Registered(analyzers) ==
  [n \in DOMAIN registry \cup DOMAIN analyzers |->
     IF n \in DOMAIN analyzers THEN analyzers[n] ELSE registry[n]]

RegisterDefaultTokenizers ==
  /\ registry' = Registered(DefaultTokenizers)
  /\ UNCHANGED <<schema, index, writing>>

\* An analyzer whose registration fails or panics leaves the manager as it is.
RegisterTextAnalyzer(n, o) ==
  /\ schema = << >>
  /\ AnalyzerOutcome(o, Languages) = "registered"
  /\ registry' = Registered([name \in {n} |-> AnalyzerOf(o)])
  /\ UNCHANGED <<schema, index, writing>>

-------------------------------------------------------------------------------
(* The writer.  A call that panics while it holds the mutex poisons it, and    *)
(* every later call panics at its lock().unwrap().                             *)
Writer == index # << >> /\ writer = "works"

\* A document is given to the writer by the field numbers of a schema handle of
\* the caller: the index reads each value as its own field of that number.
Place(fields, f) == CHOOSE i \in DOMAIN fields : fields[i].name = f
Read(handle, doc) ==
  [f \in {index[n].name : n \in {n \in DOMAIN index \cap DOMAIN handle :
                                 handle[n].name \in DOMAIN doc}} |->
     doc[handle[Place(index, f)].name]]

\* A value with a number that the index does not have.
Unknown(handle, doc) ==
  \E n \in DOMAIN handle \ DOMAIN index :
    handle[n].name \in DOMAIN doc /\ doc[handle[n].name] # Nothing

\* Tantivy's indexing thread dies of such a document, and the writer fails with
\* it.  Bound: it is next rolled back or opened anew.
Adds(handle, docs) ==
  IF \E i \in DOMAIN docs : Unknown(handle, docs[i])
  THEN writer' = "failed" /\ UNCHANGED <<registry, schema, index, live, committed>>
  ELSE /\ Len(live) + Len(docs) <= MaxDocs
       /\ live' = live \o [i \in DOMAIN docs |-> Read(handle, docs[i])]
       /\ UNCHANGED <<registry, schema, index, committed, writer>>

\* The handles the caller adds with.  Bound: the index's own and the latest.
Handles == {index, schema}

WriterAddDocument(doc) ==
  /\ Writer
  /\ Adds(index, AddDocument(TypesOf(index), doc))

WriterAddDocumentWithSchema(handle, doc) ==
  /\ Writer
  /\ Adds(handle, AddDocumentWithSchema(TypesOf(handle), doc))

WriterAddDocumentBatch(handle, docs) ==
  /\ Writer
  /\ Adds(handle, AddBatch(TypesOf(handle), docs).added)

\* The texts and the other values a document has in a field.
ValuesIn(doc, f) == IF f \in DOMAIN doc THEN {doc[f][i].v : i \in DOMAIN doc[f]} ELSE {}
FoundBy(query, f, doc) ==
  \E text \in ValuesIn(doc, f) : Matches(query, Field(index, f), text)

Deletes(IsDeleted(_)) ==
  /\ live' = Kept(live, {i \in DOMAIN live : ~IsDeleted(live[i])})
  /\ UNCHANGED <<registry, schema, index, committed, writer>>

Panic == writer' = "poisoned" /\ UNCHANGED <<registry, schema, index, live, committed>>
Refuse == UNCHANGED vars

WriterDeleteTerm(f, x) ==
  /\ Writer
  /\ f \in NamesOf(index)
  /\ LET field == Field(index, f)
         value == DeleteValue(field.type, x)
     IN  IF field.type = "str"
         THEN IF ~IsStr(x) THEN Refuse
              ELSE IF Panics(DeleteTerm(field, x.v)) THEN Panic
              ELSE Deletes(LAMBDA d : FoundBy(DeleteTerm(field, x.v), f, d))
         ELSE IF value.ok
              THEN Deletes(LAMBDA d : field.indexed /\ value.values[1].v \in ValuesIn(d, f))
              ELSE Refuse

\* delete_documents with a term query of a text field.
WriterDeleteDocuments(f, text) ==
  /\ Writer
  /\ f \in NamesOf(index) /\ Field(index, f).type = "str"
  /\ Deletes(LAMBDA d : FoundBy(QueryTerm(Field(index, f), text), f, d))

WriterCommit ==
  /\ Writer
  /\ committed' = live
  /\ UNCHANGED <<registry, schema, index, live, writer>>

\* Rolling back starts a new indexing thread.
WriterRollback ==
  /\ index # << >> /\ writer # "poisoned"
  /\ live' = committed
  /\ writer' = "works"
  /\ UNCHANGED <<registry, schema, index, committed>>

-------------------------------------------------------------------------------
Init ==
  /\ registry = << >>
  /\ schema = << >> /\ index = << >>
  /\ live = << >> /\ committed = << >>
  /\ writer = "works"

Next ==
  \/ AddTextField \/ AddOtherField
  \/ CreateIndex \/ Reopen \/ OpenOrCreate
  \/ RegisterDefaultTokenizers
  \/ \E o \in Analyzers : RegisterTextAnalyzer("custom", o)
  \/ \E d \in Docs : WriterAddDocument(d)
  \/ \E handle \in Handles, d \in Docs : WriterAddDocumentWithSchema(handle, d)
  \/ \E handle \in Handles, d, e \in Docs \cup {Nil} : WriterAddDocumentBatch(handle, <<d, e>>)
  \/ \E f \in NamesOf(index), x \in Terms : WriterDeleteTerm(f, x)
  \/ \E f \in NamesOf(index), t \in Strings : WriterDeleteDocuments(f, t)
  \/ WriterCommit \/ WriterRollback

Spec == Init /\ [][Next]_vars
-------------------------------------------------------------------------------
\* What a schema makes of the documents, by the three ways of adding one.
Made(fields) ==
  LET types == TypesOf(fields) IN
       {[f \in Known(types, d) |-> SingleField(types[f], d.v[f])] : d \in Docs}
  \cup {[f \in Known(types, d) |-> WithSchemaField(types[f], d.v[f])] : d \in Docs}
  \cup {[f \in Known(types, d) |-> AddField(types[f], d.v[f]).values] :
          d \in {e \in Docs : Accepted(types, e)}}

\* copy_existing_fields_to_builder, schema.rs:352-391, with document.rs:473, 591:
\* a document is converted by the numbers and types of a handle the caller keeps
\* growing after the index was created.  What the index holds of it is what its
\* own schema makes of a document: no value stands under another field or as
\* another type.
DocumentsFitIndex == \A i \in DOMAIN live : live[i] \in Made(index)

AgreeingTypes == {"str", "u64", "i64", "bool", "facet", "ip"}

\* "Convert document using the same logic as single document addition"
\* (document.rs:598), for the types it is true of: a value the batch takes is
\* stored by all three copies alike, and one that validates is taken.
CopiesAgree ==
  \A i \in DOMAIN schema, x \in Terms :
    LET type == schema[i].type
        added == AddField(type, x)
    IN  /\ ValidField(type, x) => added.ok
        /\ added.ok /\ type \in AgreeingTypes =>
             added.values = SingleField(type, x) /\ added.values = WithSchemaField(type, x)

\* writer_delete_term, query_term and the range queries, document.rs:303-446,
\* query.rs:134-219, 257-341: the value a term is deleted or looked up by is the
\* one the document stored for the same term, at the ends of the unsigned and the
\* signed range too, and a range of one value finds just what was stored as it.
ValuesAreFound ==
  \A i \in DOMAIN schema, x \in Terms :
    LET type == schema[i].type
        deleted == DeleteValue(type, x)
    IN  type # "str" =>
          /\ deleted.ok /\ SingleField(type, x) # Nothing => deleted.values = SingleField(type, x)
          /\ ~IsStr(x) /\ AddField(type, x).ok /\ type \in {"u64", "i64", "bool"} => deleted.ok
          /\ IsStr(x) /\ deleted.ok => deleted = QueryValue(type, x)
          /\ type \in RangeTypes /\ x # Nil /\ IsEnd(type, x) =>
               \A y \in Terms : SingleField(type, y) # Nothing =>
                 (InRange(x, x, SingleField(type, y)[1].v)
                    <=> SingleField(type, y) = SingleField(type, x))

\* The two copies of the text term, document.rs:235-302 and query.rs:97-133: a
\* deletion takes no document that the query for the same text does not find.
\* The query takes one word as it is typed, where the deletion drops the white
\* space around it: there it is the query for the word alone that finds it.
DeletionIsAQuery ==
  \A i \in DOMAIN live, f \in NamesOf(index), t \in Strings :
    Field(index, f).type = "str" =>
      (FoundBy(DeleteTerm(Field(index, f), t), f, live[i])
         => FoundBy(QueryTerm(Field(index, f), IF Len(Chunks(t)) = 1 THEN Chunks(t)[1] ELSE t),
                    f, live[i]))

\* search/tantivy.ex:299-338 over the field of :231-239: a search in any mode for
\* consecutive words of a document's content finds the document, although the
\* search's tokenizer is not the index's.  Words the index leaves out excepted.
SearchFindsContent ==
  \A i \in DOMAIN live, f \in NamesOf(index), mode \in Modes :
    LET field == Field(index, f) IN
    field.type = "str" /\ field.positions /\ "default" \in DOMAIN registry =>
      \A text \in ValuesIn(live[i], f) : \A a, b \in DOMAIN text :
        LET part == SubSeq(text, a, b)
            words == AllWords(part)
        IN  words # << >> /\ (\A j \in DOMAIN words : words[j] \notin LongWords)
              => Matches(BuildQuery(registry, part, mode), field, text)

\* What an analyzer should make of words between spaces.
WordsAnalyzed(o, t) ==
  LET lowered == [i \in DOMAIN t |-> IF o.lower THEN Lower[t[i][1]] ELSE t[i][1]]
      kept == Kept(lowered, {i \in DOMAIN lowered :
                               ~(o.stop # "none" /\ lowered[i] \in StopWords)})
      stemmed == [i \in DOMAIN kept |-> IF o.stem # "none" THEN Stem[kept[i]] ELSE kept[i]]
      short == Kept(stemmed, {i \in DOMAIN stemmed : ~(o.long /\ stemmed[i] \in LongWords)})
  IN  [i \in DOMAIN short |-> Word(short[i])]

\* register_text_analyzer, tokenizer.rs:133-382, sixteen chains written out for
\* each of two tokenizers: in each of them stop words go before what is left is
\* stemmed, in lower case when the analyzer lowers it, words are too long by
\* their stems, and nothing is filtered that was not asked for.
AnalyzersKeepOrder ==
  \A o \in Analyzers, t \in Strings :
    "custom" \in DOMAIN registry /\ registry["custom"] = AnalyzerOf(o)
        /\ (\A i \in DOMAIN t : Len(t[i]) = 1) =>
      TokenizeText(registry, "custom", t) = WordsAnalyzed(o, t)
===============================================================================
