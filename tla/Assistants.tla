------------------------------ MODULE Assistants ------------------------------
(***************************************************************************)
(* What an agent learns and says: the memories, the knowledge and the      *)
(* sessions of crates/omniagent-learning/src/lib.rs, the conversations,    *)
(* contents and models of crates/omniagent-multimodal/src/lib.rs.          *)
(* Operations run to completion behind `&mut self'.                        *)
(*                                                                         *)
(* Measures of importance and accuracy are numbers in the order of the     *)
(* code's fractions.  A content is its type and how many bytes it has;     *)
(* searches by words and by similarity, which only read, are left out.     *)
(***************************************************************************)
EXTENDS Integers, SequencesExt

CONSTANTS
  MemoryTypes,      \* the types of memories that are stored
  Importances, Expiries, Times,
  Entities, Predicates,
  OtherGraphs,      \* the graphs that are merged, as sequences of triples
  SessionIds, Accuracies, TargetAccuracy,
  Limits,           \* the limits that conversations are given
  ModelNames,
  MimeTypes,        \* strings that name a type of content
  MaxMemories, MaxTriples, MaxMetrics, MaxMessages   \* bounds

(* The strings that from_mime knows, and the type each stands for *)
KnownMime ==
  [m \in {"text/plain"} |-> "PlainText"] @@ [m \in {"text/markdown", "text/x-markdown"} |-> "Markdown"] @@
  [m \in {"text/html"} |-> "Html"] @@ [m \in {"application/json"} |-> "Json"] @@
  [m \in {"application/xml", "text/xml"} |-> "Xml"] @@ [m \in {"text/csv"} |-> "Csv"] @@
  [m \in {"image/png"} |-> "Png"] @@ [m \in {"image/jpeg"} |-> "Jpeg"] @@
  [m \in {"image/webp"} |-> "WebP"] @@ [m \in {"image/gif"} |-> "Gif"] @@
  [m \in {"image/bmp"} |-> "Bmp"] @@ [m \in {"image/svg+xml"} |-> "Svg"] @@
  [m \in {"audio/wav", "audio/x-wav"} |-> "Wav"] @@ [m \in {"audio/mpeg", "audio/mp3"} |-> "Mp3"] @@
  [m \in {"audio/ogg"} |-> "Ogg"] @@ [m \in {"audio/flac"} |-> "Flac"] @@
  [m \in {"video/mp4"} |-> "Mp4"] @@ [m \in {"video/webm"} |-> "WebM"] @@
  [m \in {"application/octet-stream"} |-> "Raw"]

ConstantsOK ==
  /\ MemoryTypes \subseteq {"ShortTerm", "LongTerm", "Working", "Episodic", "Semantic"}
  /\ Importances \cup Times \cup Accuracies \cup Limits \subseteq Nat
  /\ \A e \in Expiries : e = <<>> \/ e[1] \in Nat
  /\ {MaxMemories, MaxTriples, MaxMetrics, MaxMessages, TargetAccuracy} \subseteq Nat

VARIABLES
  (* MemoryStore *)
  entries, short_term, long_term, next_id,
  (* KnowledgeGraph *)
  triples, entity_index,
  (* LearningEngine *)
  sessions,
  (* Conversation *)
  messages, max_messages,
  said,           \* history: how many messages were added since the last clear
  (* ModelManager *)
  models, active_model

memoryvars == <<entries, short_term, long_term, next_id>>
graphvars == <<triples, entity_index>>
talkvars == <<messages, max_messages, said>>
modelvars == <<models, active_model>>
vars == <<memoryvars, graphvars, sessions, talkvars, modelvars>>

Put(f, k, v) == [i \in DOMAIN f \cup {k} |-> IF i = k THEN v ELSE f[i]]

-----------------------------------------------------------------------------
(* MemoryStore                                                             *)

Store(type, importance, expires_at) ==
  /\ entries' = Put(entries, next_id, [memory_type |-> type, importance |-> importance,
                                       expires_at |-> expires_at])
  /\ short_term' = IF type = "ShortTerm" THEN Append(short_term, next_id) ELSE short_term
  /\ long_term' = IF type = "LongTerm" THEN Append(long_term, next_id) ELSE long_term
  /\ next_id' = next_id + 1

Forget(ids) ==
  /\ entries' = [id \in DOMAIN entries \ ids |-> entries[id]]
  /\ short_term' = SelectSeq(short_term, LAMBDA id : id \notin ids)
  /\ long_term' = SelectSeq(long_term, LAMBDA id : id \notin ids)
  /\ UNCHANGED next_id

Delete(id) == id \in DOMAIN entries /\ Forget({id})

(* A memory that moves keeps the time at which it expires *)
Consolidate(threshold) ==
  LET moving == SelectSeq(short_term, LAMBDA id : entries[id].importance >= threshold)
  IN  /\ entries' = [id \in DOMAIN entries |->
                       IF id \in ToSet(moving) THEN [entries[id] EXCEPT !.memory_type = "LongTerm"]
                       ELSE entries[id]]
      /\ long_term' = long_term \o moving
      /\ short_term' = SelectSeq(short_term, LAMBDA id : id \notin ToSet(moving))
      /\ UNCHANGED next_id

Expired(entry, now) == entry.expires_at # <<>> /\ now >= entry.expires_at[1]
CleanupExpired(now) == Forget({id \in DOMAIN entries : Expired(entries[id], now)})

-----------------------------------------------------------------------------
(* KnowledgeGraph                                                          *)

Triple(s, p, o) == [subject |-> s, predicate |-> p, object |-> o]

Indexed(index, entity, i) ==
  Put(index, entity, IF entity \in DOMAIN index THEN Append(index[entity], i) ELSE <<i>>)

(* A triple of an entity and itself is twice in the index *)
WithTriple(graph, triple) ==
  LET i == Len(graph.triples) + 1
  IN  [triples |-> Append(graph.triples, triple),
       index |-> Indexed(Indexed(graph.index, triple.subject, i), triple.object, i)]

Becomes(graph) == triples' = graph.triples /\ entity_index' = graph.index
Graph == [triples |-> triples, index |-> entity_index]

AddTriple(triple) == Becomes(WithTriple(Graph, triple))

(* Triples that the graph has are passed over, those added before too *)
Merge(other) ==
  Becomes(FoldLeft(LAMBDA g, t : IF t \in ToSet(g.triples) THEN g ELSE WithTriple(g, t), Graph, other))

(* query_subject and query_object: triples that name the entity, on        *)
(* either side                                                             *)
QueryEntity(entity) ==
  IF entity \in DOMAIN entity_index
    THEN [i \in DOMAIN entity_index[entity] |-> triples[entity_index[entity][i]]]
    ELSE <<>>

QueryPredicate(predicate) == SelectSeq(triples, LAMBDA t : t.predicate = predicate)

(* The paths of one or two triples, as a set *)
QueryPath(from, to) ==
  UNION {IF hop1.object = to THEN {<<hop1>>}
         ELSE {<<hop1, hop2>> : hop2 \in {t \in ToSet(QueryEntity(hop1.object)) : t.object = to}} :
           hop1 \in ToSet(QueryEntity(from))}

RelatedEntities(entity) ==
  UNION {{t.subject, t.object} : t \in ToSet(QueryEntity(entity))} \ {entity}

-----------------------------------------------------------------------------
(* LearningEngine.  Metrics are their accuracy.                            *)

CreateSession(id) ==
  /\ id \notin DOMAIN sessions
  /\ sessions' = Put(sessions, id, [metrics_history |-> <<>>, is_active |-> TRUE])

RecordMetrics(id, accuracy) ==
  /\ id \in DOMAIN sessions /\ sessions[id].is_active
  /\ sessions' = [sessions EXCEPT ![id].metrics_history = Append(@, accuracy)]

StopSession(id) ==
  id \in DOMAIN sessions /\ sessions' = [sessions EXCEPT ![id].is_active = FALSE]

IsTargetReached(session) ==
  \E i \in DOMAIN session.metrics_history : session.metrics_history[i] >= TargetAccuracy

(* The last of the largest *)
BestMetrics(session) ==
  LET history == session.metrics_history
  IN  {i \in DOMAIN history :
         \A j \in DOMAIN history : history[j] < history[i] \/ (history[j] = history[i] /\ j <= i)}

-----------------------------------------------------------------------------
(* Contents                                                                *)

(* What is not known is unknown under its name, which from_mime cuts at a  *)
(* semicolon; MimeTypes are without one                                    *)
FromMime(mime) == IF mime \in DOMAIN KnownMime THEN KnownMime[mime] ELSE mime

AsMime(type) ==
  CASE type = "Markdown" -> "text/markdown"
    [] type = "Xml" -> "application/xml"
    [] type = "Wav" -> "audio/wav"
    [] type = "Mp3" -> "audio/mpeg"
    [] type \notin {"Markdown", "Xml", "Wav", "Mp3"} ->
         IF \E m \in DOMAIN KnownMime : KnownMime[m] = type
           THEN CHOOSE m \in DOMAIN KnownMime : KnownMime[m] = type ELSE type

ModalityOf(type) ==
  CASE type \in {"PlainText", "Markdown", "Html"} -> "Text"
    [] type \in {"Json", "Xml", "Csv"} -> "Structured"
    [] type \in {"Png", "Jpeg", "WebP", "Gif", "Bmp", "Svg"} -> "Image"
    [] type \in {"Wav", "Mp3", "Ogg", "Flac"} -> "Audio"
    [] type \in {"Mp4", "WebM"} -> "Video"
    [] OTHER -> "Binary"

IsText(type) == type \in {"PlainText", "Markdown", "Html", "Json", "Xml", "Csv", "Svg"}
IsImage(type) == type \in {"Png", "Jpeg", "WebP", "Gif", "Bmp", "Svg"}
IsAudio(type) == type \in {"Wav", "Mp3", "Ogg", "Flac"}

Content(type, size, has_text) ==
  [modality |-> ModalityOf(type), content_type |-> type, size |-> size, has_text |-> has_text]

FromText(size, type) == Content(type, size, TRUE)
FromBinary(size, type, is_utf8) == Content(type, size, IsText(type) /\ is_utf8)

(* Convert(content, target) succeeds only if there is nothing to do *)
Converts(content, target) == content.modality = target

-----------------------------------------------------------------------------
(* Conversation                                                            *)

(* The id is the length the list has before the oldest message is dropped *)
AddMessage(role, content) ==
  LET all == Append(messages, [id |-> Len(messages) + 1, role |-> role, content |-> content,
                               number |-> said + 1])
  IN  /\ messages' = IF max_messages > 0 /\ Len(all) > max_messages THEN Tail(all) ELSE all
      /\ said' = said + 1
      /\ UNCHANGED max_messages

Clear == messages' = <<>> /\ said' = 0 /\ UNCHANGED max_messages

(* max_messages is a public field *)
SetMaxMessages(n) == max_messages' = n /\ UNCHANGED <<messages, said>>

RecentMessages(n) ==
  IF n >= Len(messages) THEN messages ELSE SubSeq(messages, Len(messages) - n + 1, Len(messages))

(* In tokens of four characters, without a system prompt *)
ContextSize ==
  FoldLeft(LAMBDA sum, m : sum + (IF m.content.has_text THEN m.content.size ELSE 0), 0, messages) \div 4

-----------------------------------------------------------------------------
(* ModelManager.  Its inference is a stub that changes nothing.            *)

NoModel == "none"

RegisterModel(name) ==
  name \notin models /\ models' = models \cup {name} /\ UNCHANGED active_model

SetActive(name) == name \in models /\ active_model' = name /\ UNCHANGED models

RemoveModel(name) ==
  /\ name \in models
  /\ models' = models \ {name}
  /\ active_model' = IF active_model = name THEN NoModel ELSE active_model

-----------------------------------------------------------------------------

Init ==
  /\ entries = <<>> /\ short_term = <<>> /\ long_term = <<>> /\ next_id = 1
  /\ triples = <<>> /\ entity_index = <<>>
  /\ sessions = <<>>
  /\ messages = <<>> /\ max_messages = 0 /\ said = 0
  /\ models = {} /\ active_model = NoModel

MemoryNext ==
  \/ \E type \in MemoryTypes, importance \in Importances, expires_at \in Expiries :
       next_id <= MaxMemories /\ Store(type, importance, expires_at)
  \/ \E id \in 1 .. MaxMemories : Delete(id)
  \/ \E threshold \in Importances : Consolidate(threshold)
  \/ \E now \in Times : CleanupExpired(now)

GraphNext ==
  /\ \/ \E s, o \in Entities, p \in Predicates : AddTriple(Triple(s, p, o))
     \/ \E other \in OtherGraphs : Merge(other)
  /\ Len(triples') <= MaxTriples

SessionNext ==
  \E id \in SessionIds :
    \/ CreateSession(id) \/ StopSession(id)
    \/ \E accuracy \in Accuracies :
         RecordMetrics(id, accuracy) /\ Len(sessions'[id].metrics_history) <= MaxMetrics

TalkNext ==
  \/ \E role \in {"User", "Assistant", "Tool"} :
       said < MaxMessages /\ AddMessage(role, FromText(said + 1, "PlainText"))
  \/ \E type \in {"Png", "Html"}, is_utf8 \in BOOLEAN :
       said < MaxMessages /\ AddMessage("User", FromBinary(said + 1, type, is_utf8))
  \/ Clear
  \/ \E n \in Limits : SetMaxMessages(n)

ModelNext == \E name \in ModelNames : RegisterModel(name) \/ SetActive(name) \/ RemoveModel(name)

-----------------------------------------------------------------------------

(* The types of the variables. *)
TypeOK ==
  /\ DOMAIN entries \subseteq 1 .. next_id - 1 /\ next_id \in 1 .. MaxMemories + 1
  /\ DOMAIN entity_index \subseteq Entities /\ Len(triples) <= MaxTriples
  /\ DOMAIN sessions \subseteq SessionIds
  /\ max_messages \in Limits \cup {0} /\ said \in 0 .. MaxMessages
  /\ models \subseteq ModelNames /\ active_model \in ModelNames \cup {NoModel}

(* A short-term or long-term memory is once in the list of its type, and   *)
(* only there; memories wait for consolidation in the order they were      *)
(* stored.                                                                 *)
MemoriesListed ==
  /\ IsInjective(short_term) /\ IsInjective(long_term)
  /\ ToSet(short_term) = {id \in DOMAIN entries : entries[id].memory_type = "ShortTerm"}
  /\ ToSet(long_term) = {id \in DOMAIN entries : entries[id].memory_type = "LongTerm"}
  /\ \A i, j \in DOMAIN short_term : i < j => short_term[i] < short_term[j]

(* The index leads to just the triples that name an entity; a path of the  *)
(* graph is found, also through or to an entity of its own start, and what *)
(* is found ends where it should, in one or two triples that are           *)
(* connected.                                                              *)
GraphExact ==
  /\ \A e \in Entities :
       /\ ToSet(QueryEntity(e)) = {t \in ToSet(triples) : e \in {t.subject, t.object}}
       /\ \A f \in RelatedEntities(e) : e \in RelatedEntities(f)
  /\ \A from, to \in Entities :
       LET found == QueryPath(from, to)
           direct == {t \in ToSet(triples) : t.subject = from /\ t.object = to}
           first == {t \in ToSet(triples) : t.subject = from /\ t.object # to}
       IN  /\ {<<t>> : t \in direct} \subseteq found
           /\ \A t \in first, u \in ToSet(triples) :
                u.subject = t.object /\ u.object = to => <<t, u>> \in found
           /\ \A path \in found :
                /\ Last(path).object = to /\ from \in {Head(path).subject, Head(path).object}
                /\ Len(path) = 2 => path[1].object \in {path[2].subject, path[2].object}
  /\ \A p \in Predicates : Len(QueryPredicate(p)) <= Len(triples)

(* A session that reached its target did so with its best metrics.         *)
SessionsExact ==
  \A id \in DOMAIN sessions :
    LET history == sessions[id].metrics_history
    IN  /\ history # <<>> => Cardinality(BestMetrics(sessions[id])) = 1
        /\ IsTargetReached(sessions[id]) <=>
             \E i \in BestMetrics(sessions[id]) : history[i] >= TargetAccuracy

(* A conversation holds the last messages, in order and without a gap; the *)
(* id of a message is its number until the first is dropped.               *)
ConversationExact ==
  /\ \A i \in DOMAIN messages : messages[i].number = said - Len(messages) + i
  /\ \A i, j \in DOMAIN messages : i < j => messages[i].id <= messages[j].id
  /\ Len(messages) = said => \A i \in DOMAIN messages : messages[i].id = i
  /\ \A n \in 0 .. MaxMessages : \A m \in ToSet(RecentMessages(n)) : m.number > said - n
  /\ ContextSize <= (said * MaxMessages) \div 4

(* A model is active only while it is registered.                          *)
ModelsExact == active_model \in models \cup {NoModel}

(* A type of content is found under the name it gives, with one modality   *)
(* that agrees with what it is said to be.                                 *)
MimeExact ==
  \A m \in MimeTypes \cup DOMAIN KnownMime :
    LET type == FromMime(m)
        text == FromText(1, type)
    IN  /\ FromMime(AsMime(type)) = type
        /\ IsImage(type) <=> ModalityOf(type) = "Image"
        /\ IsAudio(type) <=> ModalityOf(type) = "Audio"
        /\ ModalityOf(type) \in {"Text", "Structured"} => IsText(type)
        /\ Converts(text, ModalityOf(type)) /\ FromBinary(1, type, TRUE).has_text = IsText(type)

=============================================================================
