----------------------------- MODULE VctMessages -----------------------------
(***************************************************************************)
(* The message classes protoc generated from dep/vctn.proto, one group of  *)
(* operators per class:                                                    *)
(*   New                a default message (constructor, SharedCtor)        *)
(*   Copy               the copy constructor                               *)
(*   Clear, MergeFrom, IsInitialized                                       *)
(*   Field, MergePartial  MergePartialFromCodedStream: switch and loop     *)
(*   Serialize          SerializeWithCachedSizes and its array form        *)
(*   RequiredSize       RequiredFieldsByteSizeFallback                     *)
(*   ByteSizeLong       the message with its cached sizes set              *)
(*   View               what has_x(), x() and x_size() tell                *)
(*   Access             the messages one call of an accessor can leave     *)
(* Bits are those of _has_bits_, numbers those of the wire.  The other     *)
(* parser of the file (_InternalParse) is compiled out.                    *)
(***************************************************************************)
EXTENDS VctWire

vct_pos_New == [has |-> {}, unk |-> <<>>, size |-> 0, posm_ |-> 0, poss_ |-> 0]

vct_pos_Copy(from) == [from EXCEPT !.size = 0]

vct_pos_Clear(m) ==
  IF m.has \cap {0, 1} = {} THEN [m EXCEPT !.unk = <<>>, !.has = {}]
  ELSE [m EXCEPT !.unk = <<>>, !.has = {}, !.posm_ = 0, !.poss_ = 0]

vct_pos_MergeFrom(m, from) ==
  [m EXCEPT !.unk = @ \o from.unk, !.has = @ \cup from.has,
            !.posm_ = Taken(m, from, 0, "posm_"),
            !.poss_ = Taken(m, from, 1, "poss_")]

vct_pos_IsInitialized(m) == {0, 1} \subseteq m.has

vct_pos_Field(m, t) ==
  CASE Tag(t, 1, "varint") -> ReadInt64(m, 0, "posm_", t)
    [] Tag(t, 2, "varint") -> ReadInt64(m, 1, "poss_", t)
    [] OTHER -> SkipField(m, t)

vct_pos_MergePartial(m, tokens) == Loop(vct_pos_Field, m, tokens)

vct_pos_Serialize(m) ==
  Token(m, 0, WriteInt64(1, m.posm_)) \o Token(m, 1, WriteInt64(2, m.poss_))
    \o m.unk

vct_pos_RequiredSize(m) ==
  Space(m, 0, 1 + Int64Size(m.posm_)) + Space(m, 1, 1 + Int64Size(m.poss_))

vct_pos_ByteSizeLong(m) ==
  [m EXCEPT !.size =
     TotalBytes(m.unk) +
     IF {0, 1} \subseteq m.has
     THEN 1 + Int64Size(m.posm_) + 1 + Int64Size(m.poss_)
     ELSE vct_pos_RequiredSize(m)]

vct_pos_View(m) ==
  [has |-> m.has, unk |-> m.unk, posm_ |-> m.posm_, poss_ |-> m.poss_]

vct_pos_posm_(m) == IntField(m, 0, "posm_")
vct_pos_poss_(m) == IntField(m, 1, "poss_")
vct_pos_Access(m) == vct_pos_posm_(m) \cup vct_pos_poss_(m)

-----------------------------------------------------------------------------
vct_value_n_New ==
  [has |-> {}, unk |-> <<>>, size |-> 0,
   pos_ |-> Null, a_ |-> 0, b_ |-> 0, commit_ |-> FALSE]

vct_value_n_Copy(from) ==
  [from EXCEPT !.size = 0,
               !.pos_ = IF 0 \in from.has THEN vct_pos_Copy(@) ELSE Null]

\* Faulty variant: the message field is left as it is.
vct_value_n_ClearKeepsPos(m) ==
  LET zero == m.has \cap {1, 2, 3} # {}
  IN [m EXCEPT !.unk = <<>>, !.has = {},
               !.a_ = IF zero THEN 0 ELSE @, !.b_ = IF zero THEN 0 ELSE @,
               !.commit_ = IF zero THEN FALSE ELSE @]

\* What has no bit is trusted to be empty.
vct_value_n_Clear(m) ==
  LET zero == m.has \cap {1, 2, 3} # {}
  IN [m EXCEPT !.unk = <<>>, !.has = {},
               !.pos_ = IF 0 \in m.has THEN vct_pos_Clear(@) ELSE @,
               !.a_ = IF zero THEN 0 ELSE @, !.b_ = IF zero THEN 0 ELSE @,
               !.commit_ = IF zero THEN FALSE ELSE @]

vct_value_n_MergeFrom(m, from) ==
  [m EXCEPT !.unk = @ \o from.unk, !.has = @ \cup from.has,
            !.pos_ = IF 0 \in from.has
                     THEN vct_pos_MergeFrom(
                            Mutable(m, 0, "pos_", vct_pos_New).pos_, from.pos_)
                     ELSE @,
            !.a_ = Taken(m, from, 1, "a_"),
            !.b_ = Taken(m, from, 2, "b_"),
            !.commit_ = Taken(m, from, 3, "commit_")]

vct_value_n_IsInitialized(m) ==
  {0, 1, 2, 3} \subseteq m.has /\ vct_pos_IsInitialized(m.pos_)

vct_value_n_Field(m, t) ==
  CASE Tag(t, 1, "len") ->
         ReadMessage(m, 0, "pos_", vct_pos_New, vct_pos_MergePartial, t)
    [] Tag(t, 2, "varint") -> ReadInt64(m, 1, "a_", t)
    [] Tag(t, 3, "varint") -> ReadInt64(m, 2, "b_", t)
    [] Tag(t, 5, "varint") -> ReadBool(m, 3, "commit_", t)
    [] OTHER -> SkipField(m, t)

vct_value_n_MergePartial(m, tokens) == Loop(vct_value_n_Field, m, tokens)

vct_value_n_Serialize(m) ==
  Token(m, 0, WriteMessage(1, m.pos_, vct_pos_Serialize(m.pos_)))
    \o Token(m, 1, WriteInt64(2, m.a_)) \o Token(m, 2, WriteInt64(3, m.b_))
    \o Token(m, 3, WriteBool(5, m.commit_)) \o m.unk

vct_value_n_RequiredSize(m) ==
  Space(m, 0, 1 + LengthDelimitedSize(m.pos_.size))
    + Space(m, 1, 1 + Int64Size(m.a_)) + Space(m, 2, 1 + Int64Size(m.b_))
    + Space(m, 3, 1 + 1)

\* Faulty variant: the size of the message in the field is taken as cached.
vct_value_n_ByteSizeStale(m) ==
  [m EXCEPT !.size = TotalBytes(m.unk) + vct_value_n_RequiredSize(m)]

vct_value_n_ByteSizeLong(m) ==
  LET s == IF 0 \in m.has THEN [m EXCEPT !.pos_ = vct_pos_ByteSizeLong(@)] ELSE m
  IN [s EXCEPT !.size =
        TotalBytes(m.unk) +
        IF {0, 1, 2, 3} \subseteq m.has
        THEN 1 + LengthDelimitedSize(s.pos_.size) + 1 + Int64Size(m.a_)
               + 1 + Int64Size(m.b_) + 1 + 1
        ELSE vct_value_n_RequiredSize(s)]

vct_value_n_View(m) ==
  [has |-> m.has, unk |-> m.unk, a_ |-> m.a_, b_ |-> m.b_, commit_ |-> m.commit_,
   pos_ |-> vct_pos_View(IF m.pos_ = Null THEN vct_pos_New ELSE m.pos_)]

vct_value_n_pos_(m) ==
  MessageField(m, 0, "pos_", vct_pos_New, vct_pos_Clear, vct_pos_Access)
vct_value_n_a_(m) == IntField(m, 1, "a_")
vct_value_n_b_(m) == IntField(m, 2, "b_")
vct_value_n_commit_(m) == BoolField(m, 3, "commit_")
vct_value_n_Access(m) ==
  vct_value_n_pos_(m) \cup vct_value_n_a_(m) \cup vct_value_n_b_(m)
    \cup vct_value_n_commit_(m)

-----------------------------------------------------------------------------
vct_value_New ==
  [has |-> {}, unk |-> <<>>, size |-> 0,
   key_ |-> Shared, main_ |-> Null, his_ |-> <<>>, commit_count_ |-> 0]

\* Elements of a repeated field are merged into new ones.
Elements(his) == ForEach(his, LAMBDA e : vct_value_n_MergeFrom(vct_value_n_New, e))

vct_value_Copy(from) ==
  [from EXCEPT !.size = 0, !.his_ = Elements(@),
               !.key_ = IF 0 \in from.has THEN @ ELSE Shared,
               !.main_ = IF 1 \in from.has THEN vct_value_n_Copy(@) ELSE Null]

vct_value_Clear(m) ==
  [m EXCEPT !.unk = <<>>, !.has = {}, !.his_ = <<>>, !.commit_count_ = 0,
            !.key_ = IF 0 \in m.has THEN Emptied(@) ELSE @,
            !.main_ = IF 1 \in m.has THEN vct_value_n_Clear(@) ELSE @]

vct_value_MergeFrom(m, from) ==
  [m EXCEPT !.unk = @ \o from.unk, !.has = @ \cup from.has,
            !.his_ = @ \o Elements(from.his_),
            !.key_ = TakenString(m, from, 0, "key_"),
            !.main_ = IF 1 \in from.has
                      THEN vct_value_n_MergeFrom(
                             Mutable(m, 1, "main_", vct_value_n_New).main_,
                             from.main_)
                      ELSE @,
            !.commit_count_ = Taken(m, from, 2, "commit_count_")]

\* Faulty variant: the elements of his_ are not looked at.
vct_value_IsInitializedShallow(m) ==
  {0, 1, 2} \subseteq m.has /\ vct_value_n_IsInitialized(m.main_)

vct_value_IsInitialized(m) ==
  /\ {0, 1, 2} \subseteq m.has
  /\ \A i \in 1 .. Len(m.his_) : vct_value_n_IsInitialized(m.his_[i])
  /\ vct_value_n_IsInitialized(m.main_)

vct_value_Field(m, t) ==
  CASE Tag(t, 1, "len") -> ReadString(m, 0, "key_", t)
    [] Tag(t, 2, "len") ->
         ReadMessage(m, 1, "main_", vct_value_n_New, vct_value_n_MergePartial, t)
    [] Tag(t, 3, "len") ->
         ReadElement(m, "his_", vct_value_n_New, vct_value_n_MergePartial, t)
    [] Tag(t, 4, "varint") -> ReadInt64(m, 2, "commit_count_", t)
    [] OTHER -> SkipField(m, t)

vct_value_MergePartial(m, tokens) == Loop(vct_value_Field, m, tokens)

vct_value_Serialize(m) ==
  Token(m, 0, WriteString(1, m.key_))
    \o Token(m, 1, WriteMessage(2, m.main_, vct_value_n_Serialize(m.main_)))
    \o WriteRepeated(3, m.his_, vct_value_n_Serialize)
    \o Token(m, 2, WriteInt64(4, m.commit_count_)) \o m.unk

vct_value_RequiredSize(m) ==
  Space(m, 0, 1 + StringSize(m.key_))
    + Space(m, 1, 1 + LengthDelimitedSize(m.main_.size))
    + Space(m, 2, 1 + Int64Size(m.commit_count_))

vct_value_ByteSizeLong(m) ==
  LET s == [m EXCEPT !.his_ = ForEach(@, vct_value_n_ByteSizeLong),
                     !.main_ = IF 1 \in m.has THEN vct_value_n_ByteSizeLong(@) ELSE @]
  IN [s EXCEPT !.size =
        TotalBytes(m.unk) + RepeatedSize(s.his_) +
        IF {0, 1, 2} \subseteq m.has
        THEN 1 + StringSize(m.key_) + 1 + LengthDelimitedSize(s.main_.size)
               + 1 + Int64Size(m.commit_count_)
        ELSE vct_value_RequiredSize(s)]

vct_value_View(m) ==
  [has |-> m.has, unk |-> m.unk, key_ |-> Text(m.key_),
   main_ |-> vct_value_n_View(IF m.main_ = Null THEN vct_value_n_New ELSE m.main_),
   his_ |-> ForEach(m.his_, vct_value_n_View), commit_count_ |-> m.commit_count_]

vct_value_key_(m) == StringField(m, 0, "key_")
vct_value_main_(m) ==
  MessageField(m, 1, "main_", vct_value_n_New, vct_value_n_Clear, vct_value_n_Access)
vct_value_his_(m) == RepeatedField(m, "his_", vct_value_n_New, vct_value_n_Access)
vct_value_commit_count_(m) == IntField(m, 2, "commit_count_")
vct_value_Access(m) ==
  vct_value_key_(m) \cup vct_value_main_(m) \cup vct_value_his_(m)
    \cup vct_value_commit_count_(m)

-----------------------------------------------------------------------------
keytable_value_New ==
  [has |-> {}, unk |-> <<>>, size |-> 0,
   field_ |-> Shared, route_table_ |-> Shared, route_table_field_ |-> Shared]

keytable_value_Copy(from) ==
  [from EXCEPT !.size = 0,
     !.field_ = IF 0 \in from.has THEN @ ELSE Shared,
     !.route_table_ = IF 1 \in from.has THEN @ ELSE Shared,
     !.route_table_field_ = IF 2 \in from.has THEN @ ELSE Shared]

keytable_value_Clear(m) ==
  [m EXCEPT !.unk = <<>>, !.has = {},
            !.field_ = IF 0 \in m.has THEN Emptied(@) ELSE @,
            !.route_table_ = IF 1 \in m.has THEN Emptied(@) ELSE @,
            !.route_table_field_ = IF 2 \in m.has THEN Emptied(@) ELSE @]

keytable_value_MergeFrom(m, from) ==
  [m EXCEPT !.unk = @ \o from.unk, !.has = @ \cup from.has,
            !.field_ = TakenString(m, from, 0, "field_"),
            !.route_table_ = TakenString(m, from, 1, "route_table_"),
            !.route_table_field_ = TakenString(m, from, 2, "route_table_field_")]

keytable_value_IsInitialized(m) == {0, 1, 2} \subseteq m.has

keytable_value_Field(m, t) ==
  CASE Tag(t, 1, "len") -> ReadString(m, 0, "field_", t)
    [] Tag(t, 2, "len") -> ReadString(m, 1, "route_table_", t)
    [] Tag(t, 3, "len") -> ReadString(m, 2, "route_table_field_", t)
    [] OTHER -> SkipField(m, t)

keytable_value_MergePartial(m, tokens) == Loop(keytable_value_Field, m, tokens)

keytable_value_Serialize(m) ==
  Token(m, 0, WriteString(1, m.field_)) \o Token(m, 1, WriteString(2, m.route_table_))
    \o Token(m, 2, WriteString(3, m.route_table_field_)) \o m.unk

keytable_value_RequiredSize(m) ==
  Space(m, 0, 1 + StringSize(m.field_)) + Space(m, 1, 1 + StringSize(m.route_table_))
    + Space(m, 2, 1 + StringSize(m.route_table_field_))

keytable_value_ByteSizeLong(m) ==
  [m EXCEPT !.size =
     TotalBytes(m.unk) +
     IF {0, 1, 2} \subseteq m.has
     THEN 1 + StringSize(m.field_) + 1 + StringSize(m.route_table_)
            + 1 + StringSize(m.route_table_field_)
     ELSE keytable_value_RequiredSize(m)]

keytable_value_View(m) ==
  [has |-> m.has, unk |-> m.unk, field_ |-> Text(m.field_),
   route_table_ |-> Text(m.route_table_),
   route_table_field_ |-> Text(m.route_table_field_)]

keytable_value_field_(m) == StringField(m, 0, "field_")
keytable_value_route_table_(m) == StringField(m, 1, "route_table_")
keytable_value_route_table_field_(m) == StringField(m, 2, "route_table_field_")
keytable_value_Access(m) ==
  keytable_value_field_(m) \cup keytable_value_route_table_(m)
    \cup keytable_value_route_table_field_(m)

-----------------------------------------------------------------------------
route_value_col_New ==
  [has |-> {}, unk |-> <<>>, size |-> 0, name_ |-> Shared, value_ |-> Shared]

route_value_col_Clear(m) ==
  [m EXCEPT !.unk = <<>>, !.has = {},
            !.name_ = IF 0 \in m.has THEN Emptied(@) ELSE @,
            !.value_ = IF 1 \in m.has THEN Emptied(@) ELSE @]

route_value_col_MergeFrom(m, from) ==
  [m EXCEPT !.unk = @ \o from.unk, !.has = @ \cup from.has,
            !.name_ = TakenString(m, from, 0, "name_"),
            !.value_ = TakenString(m, from, 1, "value_")]

route_value_col_IsInitialized(m) == {0, 1} \subseteq m.has

route_value_col_Field(m, t) ==
  CASE Tag(t, 1, "len") -> ReadString(m, 0, "name_", t)
    [] Tag(t, 2, "len") -> ReadString(m, 1, "value_", t)
    [] OTHER -> SkipField(m, t)

route_value_col_MergePartial(m, tokens) == Loop(route_value_col_Field, m, tokens)

\* Faulty variant: unknown fields are dropped.
route_value_col_SerializeKnown(m) ==
  Token(m, 0, WriteString(1, m.name_)) \o Token(m, 1, WriteString(2, m.value_))

route_value_col_Serialize(m) ==
  Token(m, 0, WriteString(1, m.name_)) \o Token(m, 1, WriteString(2, m.value_))
    \o m.unk

route_value_col_RequiredSize(m) ==
  Space(m, 0, 1 + StringSize(m.name_)) + Space(m, 1, 1 + StringSize(m.value_))

route_value_col_ByteSizeLong(m) ==
  [m EXCEPT !.size =
     TotalBytes(m.unk) +
     IF {0, 1} \subseteq m.has
     THEN 1 + StringSize(m.name_) + 1 + StringSize(m.value_)
     ELSE route_value_col_RequiredSize(m)]

route_value_col_View(m) ==
  [has |-> m.has, unk |-> m.unk, name_ |-> Text(m.name_), value_ |-> Text(m.value_)]

route_value_col_name_(m) == StringField(m, 0, "name_")
route_value_col_value_(m) == StringField(m, 1, "value_")
route_value_col_Access(m) == route_value_col_name_(m) \cup route_value_col_value_(m)

-----------------------------------------------------------------------------
route_value_New ==
  [has |-> {}, unk |-> <<>>, size |-> 0,
   region_ |-> Shared, area_ |-> Shared, col_ |-> <<>>]

Columns(col) == ForEach(col, LAMBDA e : route_value_col_MergeFrom(route_value_col_New, e))

route_value_Copy(from) ==
  [from EXCEPT !.size = 0, !.col_ = Columns(@),
               !.region_ = IF 0 \in from.has THEN @ ELSE Shared,
               !.area_ = IF 1 \in from.has THEN @ ELSE Shared]

route_value_Clear(m) ==
  [m EXCEPT !.unk = <<>>, !.has = {}, !.col_ = <<>>,
            !.region_ = IF 0 \in m.has THEN Emptied(@) ELSE @,
            !.area_ = IF 1 \in m.has THEN Emptied(@) ELSE @]

\* Faulty variant: area_ is taken whether the other message has it or not.
route_value_MergeAlways(m, from) ==
  [m EXCEPT !.unk = @ \o from.unk, !.has = @ \cup from.has,
            !.col_ = @ \o Columns(from.col_),
            !.region_ = TakenString(m, from, 0, "region_"), !.area_ = Text(from.area_)]

route_value_MergeFrom(m, from) ==
  [m EXCEPT !.unk = @ \o from.unk, !.has = @ \cup from.has,
            !.col_ = @ \o Columns(from.col_),
            !.region_ = TakenString(m, from, 0, "region_"),
            !.area_ = TakenString(m, from, 1, "area_")]

route_value_IsInitialized(m) ==
  /\ {0, 1} \subseteq m.has
  /\ \A i \in 1 .. Len(m.col_) : route_value_col_IsInitialized(m.col_[i])

route_value_Field(m, t) ==
  CASE Tag(t, 1, "len") -> ReadString(m, 0, "region_", t)
    [] Tag(t, 2, "len") -> ReadString(m, 1, "area_", t)
    [] Tag(t, 3, "len") ->
         ReadElement(m, "col_", route_value_col_New, route_value_col_MergePartial, t)
    [] OTHER -> SkipField(m, t)

route_value_MergePartial(m, tokens) == Loop(route_value_Field, m, tokens)

route_value_Serialize(m) ==
  Token(m, 0, WriteString(1, m.region_)) \o Token(m, 1, WriteString(2, m.area_))
    \o WriteRepeated(3, m.col_, route_value_col_Serialize) \o m.unk

route_value_RequiredSize(m) ==
  Space(m, 0, 1 + StringSize(m.region_)) + Space(m, 1, 1 + StringSize(m.area_))

route_value_ByteSizeLong(m) ==
  LET s == [m EXCEPT !.col_ = ForEach(@, route_value_col_ByteSizeLong)]
  IN [s EXCEPT !.size =
        TotalBytes(m.unk) + RepeatedSize(s.col_) +
        IF {0, 1} \subseteq m.has
        THEN 1 + StringSize(m.region_) + 1 + StringSize(m.area_)
        ELSE route_value_RequiredSize(s)]

route_value_View(m) ==
  [has |-> m.has, unk |-> m.unk, region_ |-> Text(m.region_), area_ |-> Text(m.area_),
   col_ |-> ForEach(m.col_, route_value_col_View)]

route_value_region_(m) == StringField(m, 0, "region_")
route_value_area_(m) == StringField(m, 1, "area_")
route_value_col_(m) == RepeatedField(m, "col_", route_value_col_New, route_value_col_Access)
route_value_Access(m) ==
  route_value_region_(m) \cup route_value_area_(m) \cup route_value_col_(m)
=============================================================================
