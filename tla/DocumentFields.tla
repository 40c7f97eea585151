---------------------------- MODULE DocumentFields ----------------------------
(* How tantivy_ex turns an Elixir map into a Tantivy document: the three ways  *)
(* of adding one and the validation of one (native/tantivy_ex/native/          *)
(* tantivy_ex/src/modules/document.rs and the conversions of resources.rs).    *)
(* They are four hand-written copies of one conversion, over ten field types   *)
(* and every Elixir term a caller may pass.                                    *)
(*                                                                             *)
(* A string is a value of Strings; what chrono, Facet::from_text, base64,      *)
(* serde_json and the address parser accept is in Accepts.  Integers have      *)
(* Bits bits where the code has 64.                                            *)
EXTENDS Integers, Sequences, FiniteSets, Selections

CONSTANTS Strings, Accepts, JsonObjects, Bits,
          Numbers,   \* of the strings that are numbers, the number
          Truths,    \* of the strings that name a truth value, the value
          Unquoted   \* of a string, what is left without its quotes

Parsers == {"date", "facet", "base64", "json", "ip"}

ASSUME DocumentFieldsAssumption ==
  /\ Accepts \in [Parsers -> SUBSET Strings]
  /\ JsonObjects \subseteq Accepts["json"]
  /\ Bits \in Nat /\ Bits >= 2
  /\ DOMAIN Numbers \subseteq Strings /\ \A s \in DOMAIN Numbers : Numbers[s] \in Int
  /\ DOMAIN Truths \subseteq Strings /\ \A s \in DOMAIN Truths : Truths[s] \in BOOLEAN
  /\ Unquoted \in [Strings -> Strings]

FieldTypes == {"str", "u64", "i64", "f64", "bool", "date", "facet", "bytes", "json", "ip"}

-------------------------------------------------------------------------------
(* Elixir terms, and what Rustler decodes them to.                             *)
Str(s) == [t |-> "str", v |-> s]
Whole(n) == [t |-> "int", v |-> n]
Float(n) == [t |-> "float", v |-> n]
Bool(b) == [t |-> "bool", v |-> b]
List(items) == [t |-> "list", v |-> items]
Map(m) == [t |-> "map", v |-> m]
Nil == [t |-> "nil"]

IsStr(x) == x.t = "str"
IsU64(x) == x.t = "int" /\ x.v \in 0..(2^Bits - 1)
IsI64(x) == x.t = "int" /\ x.v \in (-(2^(Bits - 1)))..(2^(Bits - 1) - 1)
IsList(x) == x.t = "list"
IsBytes(x) == IsList(x) /\ \A i \in DOMAIN x.v : x.v[i].t = "int" /\ x.v[i].v \in 0..255
Parses(p, x) == IsStr(x) /\ x.v \in Accepts[p]

\* "as i64" of an unsigned number.
AsI64(n) == IF n >= 2^(Bits - 1) THEN n - 2^Bits ELSE n

-------------------------------------------------------------------------------
(* JSON: convert_term_to_json_value and convert_json_value_to_btreemap.        *)
\* The JSON value of a term; what no branch decodes is null.
JsonValue(x) ==
  CASE x.t \in {"str", "bool", "float", "map", "list"} -> x
    [] IsI64(x) \/ IsU64(x) -> x
    [] OTHER -> Nil

\* The value of one key of an object: nested values are kept as their text.
OwnedValue(x) ==
  CASE x.t = "int" -> <<IF IsI64(x) THEN "i64" ELSE "u64", x.v>>
    [] x.t = "float" -> <<"f64", x.v>>
    [] x.t \in {"str", "bool"} -> <<x.t, x.v>>
    [] x.t \in {"map", "list"} -> <<"text", x.v>>
    [] OTHER -> <<"str", "null">>

\* Anything but an object becomes an empty object.
BTreeMap(x) ==
  IF x.t = "map" THEN [k \in DOMAIN x.v |-> OwnedValue(JsonValue(x.v[k]))] ELSE << >>

\* A JSON text, parsed: objects keep their text, anything else becomes empty.
ParsedObject(s) == IF s \in JsonObjects THEN s ELSE << >>

-------------------------------------------------------------------------------
(* The values one field of a document gets.                                    *)
One(type, v) == <<[type |-> type, v |-> v]>>
Nothing == << >>

\* The strings of a list of facets that are facets; the others are skipped.
FacetsIn(items) ==
  LET facets == Kept(items, {i \in DOMAIN items : Parses("facet", items[i])})
  IN  [i \in DOMAIN facets |-> [type |-> "facet", v |-> facets[i].v]]

Facets(x) ==
  IF IsStr(x) THEN IF Parses("facet", x) THEN One("facet", x.v) ELSE Nothing
  ELSE IF IsList(x) THEN FacetsIn(x.v) ELSE Nothing

UnsignedField(x) == IF IsU64(x) THEN One("u64", x.v) ELSE Nothing
\* Variant: the signed range only.
SignedFieldNarrow(x) == IF IsI64(x) THEN One("i64", x.v) ELSE Nothing

SignedField(x) == IF IsI64(x) \/ IsU64(x) THEN One("i64", AsI64(x.v)) ELSE Nothing
FloatField(x) ==
  IF x.t = "float" \/ IsI64(x) \/ IsU64(x) THEN One("f64", x.v) ELSE Nothing
StrField(x) == IF IsStr(x) THEN One("str", x.v) ELSE Nothing
BoolField(x) == IF x.t = "bool" THEN One("bool", x.v) ELSE Nothing
IpField(x) == IF Parses("ip", x) THEN One("ip", x.v) ELSE Nothing
Timestamp(x) == IF IsI64(x) THEN One("date", x.v) ELSE Nothing

\* A date field of the two later functions: a timestamp or an RFC 3339 string.
DateField(x) == IF Parses("date", x) THEN One("date", x.v) ELSE Timestamp(x)

\* writer_add_document: a value the field cannot take is left out.
SingleField(type, x) ==
  CASE type = "str" -> StrField(x)
    [] type = "u64" -> UnsignedField(x)
    [] type = "i64" -> SignedField(x)
    [] type = "f64" -> FloatField(x)
    [] type = "bool" -> BoolField(x)
    [] type = "date" -> IF IsU64(x) /\ ~IsI64(x) THEN One("date", AsI64(x.v)) ELSE Timestamp(x)
    [] type = "facet" -> Facets(x)
    [] type = "bytes" -> IF IsBytes(x) \/ IsStr(x) THEN One("bytes", x.v) ELSE Nothing
    [] type = "json" -> IF Parses("json", x) THEN One("json", ParsedObject(x.v)) ELSE Nothing
    [] type = "ip" -> IpField(x)

\* writer_add_document_with_schema.
WithSchemaField(type, x) ==
  CASE type = "str" -> StrField(x)
    [] type = "u64" -> UnsignedField(x)
    [] type = "i64" -> SignedField(x)
    [] type = "f64" -> IF x.t = "float" \/ IsI64(x) THEN One("f64", x.v) ELSE Nothing
    [] type = "bool" -> BoolField(x)
    [] type = "date" -> DateField(x)
    [] type = "facet" -> Facets(x)
    [] type = "bytes" -> IF Parses("base64", x) THEN One("bytes", <<"decoded", x.v>>) ELSE Nothing
    [] type = "json" -> One("json", BTreeMap(JsonValue(x)))
    [] type = "ip" -> IpField(x)

\* add_field_to_document: [ok, values]; a refused value refuses the document.
Taken(values) == [ok |-> TRUE, values |-> values]
Refused == [ok |-> FALSE, values |-> << >>]
OrRefused(values) == IF values = Nothing THEN Refused ELSE Taken(values)

AddField(type, x) ==
  CASE type = "str" -> OrRefused(StrField(x))
    [] type = "u64" -> OrRefused(UnsignedField(x))
    [] type = "i64" -> OrRefused(SignedField(x))
    [] type = "f64" -> OrRefused(FloatField(x))
    [] type = "bool" -> OrRefused(BoolField(x))
    [] type = "date" -> OrRefused(DateField(x))
    [] type = "facet" -> IF IsList(x) THEN Taken(Facets(x)) ELSE OrRefused(Facets(x))
    [] type = "bytes" -> IF IsBytes(x) THEN Taken(One("bytes", x.v))
                         ELSE IF Parses("base64", x) THEN Taken(One("bytes", <<"decoded", x.v>>))
                         ELSE Refused
    [] type = "json" -> Taken(One("json", BTreeMap(JsonValue(x))))
    [] type = "ip" -> OrRefused(IpField(x))

\* validate_field_value.
ValidField(type, x) ==
  CASE type = "str" -> IsStr(x)
    [] type = "u64" -> IsU64(x)
    [] type = "i64" -> IsI64(x) \/ IsU64(x)
    [] type = "f64" -> x.t = "float" \/ IsI64(x) \/ IsU64(x)
    [] type = "bool" -> x.t = "bool"
    [] type = "date" -> IsI64(x) \/ Parses("date", x)
    [] type = "facet" -> \/ Parses("facet", x)
                         \/ IsList(x) /\ \A i \in DOMAIN x.v :
                              IsStr(x.v[i]) => Parses("facet", x.v[i])
    [] type = "bytes" -> IsBytes(x) \/ Parses("base64", x)
    [] type = "json" -> TRUE
    [] type = "ip" -> Parses("ip", x)

-------------------------------------------------------------------------------
(* The value of a field that is not text, in a deletion and in a query.        *)
\* A string that is a number of the type.
Parsed(IsType(_), x) == IsStr(x) /\ x.v \in DOMAIN Numbers /\ IsType(Whole(Numbers[x.v]))
Found(type, v) == Taken(One(type, v))
NumberIn(type, IsType(_), x) ==
  IF Parsed(IsType, x) THEN Found(type, Numbers[x.v]) ELSE Refused
TruthIn(x) ==
  IF IsStr(x) /\ x.v \in DOMAIN Truths THEN Found("bool", Truths[x.v]) ELSE Refused
IsNumber(x) == x.t = "int"

\* Variant: an integer beyond the signed range is refused.
DeleteValueSigned(type, x) ==
  CASE type = "i64" -> IF IsI64(x) THEN Found(type, x.v) ELSE NumberIn(type, IsI64, x)
    [] type = "u64" -> IF IsU64(x) THEN Found(type, x.v) ELSE NumberIn(type, IsU64, x)
    [] OTHER -> Refused

\* writer_delete_term.
DeleteValue(type, x) ==
  CASE type = "u64" -> IF IsU64(x) THEN Found(type, x.v) ELSE NumberIn(type, IsU64, x)
    [] type = "i64" -> IF IsI64(x) \/ IsU64(x) THEN Found(type, AsI64(x.v))
                       ELSE NumberIn(type, IsI64, x)
    [] type = "f64" -> IF x.t = "float" \/ IsI64(x) THEN Found(type, x.v)
                       ELSE NumberIn(type, IsNumber, x)
    [] type = "bool" -> IF x.t = "bool" THEN Found(type, x.v) ELSE TruthIn(x)
    [] type = "date" -> IF IsI64(x) THEN Found(type, x.v) ELSE NumberIn(type, IsI64, x)
    [] OTHER -> Refused

\* query_term: the value is a string; one that is no u64 becomes a text term,
\* which no number matches.
QueryValue(type, x) ==
  CASE type = "u64" -> IF Parsed(IsU64, x) THEN Found(type, Numbers[x.v])
                       ELSE IF Parsed(IsU64, Str(Unquoted[x.v])) THEN Found(type, Numbers[Unquoted[x.v]])
                       ELSE Taken(Nothing)
    [] type \in {"i64", "date"} -> NumberIn(type, IsI64, x)
    [] type = "f64" -> NumberIn(type, IsNumber, x)
    [] type = "bool" -> TruthIn(x)
    [] OTHER -> Refused

\* query_range_u64, query_range_i64 and query_range_f64: both ends belong to the
\* range, and one that is nil leaves it open.
RangeTypes == {"u64", "i64", "f64"}
IsEnd(type, x) ==
  \/ x = Nil
  \/ type = "u64" /\ IsU64(x)
  \/ type = "i64" /\ IsI64(x)
  \/ type = "f64" /\ x.t = "float"
InRange(start, end, v) == (start = Nil \/ start.v <= v) /\ (end = Nil \/ v <= end.v)

-------------------------------------------------------------------------------
(* Documents: a document is a Map term, a schema gives field names their types.*)
\* Fields the schema does not know are left out by every add.
Known(schema, doc) == DOMAIN doc.v \cap DOMAIN schema

\* writer_add_document: << >> when the term is no map.
AddDocument(schema, doc) ==
  IF doc.t # "map" THEN << >>
  ELSE <<[f \in Known(schema, doc) |-> SingleField(schema[f], doc.v[f])]>>

AddDocumentWithSchema(schema, doc) ==
  IF doc.t # "map" THEN << >>
  ELSE <<[f \in Known(schema, doc) |-> WithSchemaField(schema[f], doc.v[f])]>>

Accepted(schema, doc) ==
  doc.t = "map" /\ \A f \in Known(schema, doc) : AddField(schema[f], doc.v[f]).ok

\* writer_add_document_batch: a document with a refused field is left out and
\* counted once, the others are added in order.
AddBatch(schema, docs) ==
  LET taken == Kept(docs, {i \in DOMAIN docs : Accepted(schema, docs[i])})
  IN  [added |-> [i \in DOMAIN taken |->
                    [f \in Known(schema, taken[i]) |-> AddField(schema[f], taken[i].v[f]).values]],
       successful |-> Len(taken),
       errors |-> Len(docs) - Len(taken)]

\* validate_document_against_schema: unknown fields are errors too.
ValidDocument(schema, doc) ==
  /\ doc.t = "map"
  /\ \A f \in DOMAIN doc.v : f \in DOMAIN schema /\ ValidField(schema[f], doc.v[f])
===============================================================================
