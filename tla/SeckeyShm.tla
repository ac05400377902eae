----------------------------- MODULE SeckeyShm -----------------------------
(***************************************************************************)
(* shm::SeckeyShm and shm::BaseShm: objects, one to a process, that make   *)
(* or open shared memory under a name, with an array of MaxNodes nodes.    *)
(* A segment lives on without its name while it is mapped.                 *)
(*                                                                         *)
(* Sizes are counted in nodes; a node is known by its seckey_id, which is  *)
(* all that its operator== compares, 0 in memory that was set to zero.     *)
(***************************************************************************)
EXTENDS Naturals, Sequences

CONSTANTS
  Names,        \* of shared memory
  Objects,      \* one in each process
  Ids,          \* seckey_id
  MaxNodes,     \* max_node_num
  Segments,     \* a bounded number of them; those not in use are free
  None,         \* no segment
  MaxSize       \* bound on the size of a segment

ASSUME ShmAssumption ==
  /\ MaxNodes \in Nat \ {0} /\ MaxSize \in Nat
  /\ Ids \subseteq Nat /\ None \notin Segments

Extent == 1 .. MaxNodes
Zeroed == [i \in Extent |-> 0]

VARIABLES
  names,     \* the segment that a name stands for, or None
  size,      \* of each segment
  nodes,     \* the array in each segment
  state,     \* of each object
  name,      \* its name, once it has one
  segment,   \* its segment
  mapped,    \* the size of its mapping, shm_map_.get_size()
  num_node_,
  written,   \* history: what the object wrote since its last Reset
  left       \* history: segments whose maker was killed or failed

shmVars == <<names, size, nodes, state, name, segment, mapped,
             num_node_, written, left>>

ShmInit ==
  /\ names = [n \in Names |-> None]
  /\ size = [s \in Segments |-> 0]
  /\ nodes = [s \in Segments |-> Zeroed]
  /\ state = [o \in Objects |-> "none"]
  /\ name \in [Objects -> Names]
  /\ segment = [o \in Objects |-> None]
  /\ mapped = [o \in Objects |-> 0]
  /\ num_node_ = [o \in Objects |-> 0]
  /\ written = [o \in Objects |-> << >>]
  /\ left = {}

file == <<names, size, left>>
object == <<state, name, segment, mapped>>
array == <<nodes, num_node_, written>>

(* An object that holds a segment: its own, or one that it opened.         *)
Owns(o) == state[o] = "owner"
Live(o) == state[o] \in {"owner", "opener"}

-----------------------------------------------------------------------------
Free == {s \in Segments : /\ \A n \in Names : names[n] # s
                          /\ \A o \in Objects : segment[o] # s}

(* The name gets a new segment, without a size, and the object has it.     *)
Make(o, n, s) ==
  /\ names' = [names EXCEPT ![n] = s]
  /\ segment' = [segment EXCEPT ![o] = s]
  /\ name' = [name EXCEPT ![o] = n]
  /\ state' = [state EXCEPT ![o] = "making"]
  /\ size' = [size EXCEPT ![s] = 0]
  /\ left' = left \ {s}
  /\ UNCHANGED <<mapped, array>>

(* Mutant: open_or_create.                                                 *)
CreateOrOpen(o, n) ==
  /\ state[o] = "none"
  /\ \E s \in IF names[n] = None THEN Free ELSE {names[n]} : Make(o, n, s)

(* SeckeyShm(name): the name must be free, or the constructor throws.      *)
Create(o, n) ==
  /\ state[o] = "none" /\ names[n] = None
  /\ \E s \in Free : Make(o, n, s)

(* The segment gets its size, is mapped and set to zero.                   *)
Map(o) ==
  /\ state[o] = "making"
  /\ size' = [size EXCEPT ![segment[o]] = MaxNodes]
  /\ mapped' = [mapped EXCEPT ![o] = MaxNodes]
  /\ nodes' = [nodes EXCEPT ![segment[o]] = Zeroed]
  /\ state' = [state EXCEPT ![o] = "owner"]
  /\ UNCHANGED <<names, name, segment, num_node_, written, left>>

(* The object is no more.                                                  *)
Gone(o) ==
  /\ state' = [state EXCEPT ![o] = "none"]
  /\ segment' = [segment EXCEPT ![o] = None]
  /\ mapped' = [mapped EXCEPT ![o] = 0]
  /\ num_node_' = [num_node_ EXCEPT ![o] = 0]
  /\ written' = [written EXCEPT ![o] = << >>]
  /\ UNCHANGED <<name, nodes>>

(* The process is killed; or, in the constructor, truncate or the mapping  *)
(* throws, and no destructor of a BaseShm runs.                            *)
Abandon(o) ==
  /\ state[o] # "none"
  /\ Gone(o)
  /\ left' = IF state[o] = "opener" THEN left ELSE left \union {segment[o]}
  /\ UNCHANGED <<names, size>>

(* BaseShm(name): a segment without a size cannot be mapped.               *)
Open(o, n) ==
  /\ state[o] = "none"
  /\ names[n] # None /\ size[names[n]] # 0
  /\ segment' = [segment EXCEPT ![o] = names[n]]
  /\ mapped' = [mapped EXCEPT ![o] = size[names[n]]]
  /\ name' = [name EXCEPT ![o] = n]
  /\ state' = [state EXCEPT ![o] = "opener"]
  /\ UNCHANGED <<file, array>>

-----------------------------------------------------------------------------
(* Mutant: the number of nodes is not looked at.                           *)
WriteUnchecked(o, id) ==
  /\ Owns(o)
  /\ num_node_' = [num_node_ EXCEPT ![o] = @ + 1]
  /\ nodes' = [nodes EXCEPT ![segment[o]][num_node_'[o]] = id]
  /\ written' = [written EXCEPT ![o] = Append(@, id)]
  /\ UNCHANGED <<file, object>>

(* Write refuses when the array is full.                                   *)
Write(o, id) ==
  /\ Owns(o) /\ num_node_[o] # MaxNodes
  /\ num_node_' = [num_node_ EXCEPT ![o] = @ + 1]
  /\ nodes' = [nodes EXCEPT ![segment[o]][num_node_'[o]] = id]
  /\ written' = [written EXCEPT ![o] = Append(@, id)]
  /\ UNCHANGED <<file, object>>

(* Mutant: the array is searched to its end.                               *)
SearchedAll(o) == Extent

(* The nodes that Find looks at, from the first.                           *)
Searched(o) == 1 .. num_node_[o]

Matches(o, id) == {i \in Searched(o) : nodes[segment[o]][i] = id}

(* Find: the place of the first node that equals id; 0 is nullptr.         *)
Find(o, id) ==
  IF Matches(o, id) = {} THEN 0
  ELSE CHOOSE i \in Matches(o, id) : \A j \in Matches(o, id) : i <= j

Reset(o) ==
  /\ Owns(o)
  /\ num_node_' = [num_node_ EXCEPT ![o] = 0]
  /\ written' = [written EXCEPT ![o] = << >>]
  /\ UNCHANGED <<file, object, nodes>>

(* Mutant: length is taken for the new size.                               *)
TruncateTo(o, length) ==
  /\ Live(o)
  /\ size' = [size EXCEPT ![segment[o]] = length]
  /\ UNCHANGED <<names, left, object, array>>

(* The segment is made larger than this mapping, which stays as it is.     *)
Truncate(o, length) ==
  /\ Live(o) /\ mapped[o] + length <= MaxSize
  /\ size' = [size EXCEPT ![segment[o]] = mapped[o] + length]
  /\ UNCHANGED <<names, left, object, array>>

(* The name is removed, whatever segment it stands for by now.             *)
RemoveName(o) == names' = [names EXCEPT ![name[o]] = None]

DeleteShm(o) ==
  /\ Live(o)
  /\ RemoveName(o)
  /\ UNCHANGED <<size, left, object, array>>

(* Mutant: the destructor leaves the name.                                 *)
DestroyQuietly(o) ==
  /\ Live(o)
  /\ Gone(o)
  /\ UNCHANGED file

(* ~BaseShm, of a maker or of one that only opened the segment.            *)
Destroy(o) ==
  /\ Live(o)
  /\ RemoveName(o)
  /\ Gone(o)
  /\ UNCHANGED <<size, left>>

ShmNext ==
  \E o \in Objects :
    \/ \E n \in Names : Create(o, n) \/ Open(o, n)
    \/ Map(o) \/ Abandon(o) \/ Reset(o) \/ DeleteShm(o) \/ Destroy(o)
    \/ \E id \in Ids : Write(o, id)
    \/ \E length \in 1 .. MaxSize : Truncate(o, length)

ShmSpec == ShmInit /\ [][ShmNext]_shmVars

-----------------------------------------------------------------------------
(* Every variable has its type, and only an object that lives a segment.    *)
ShmTypeOK ==
  /\ names \in [Names -> Segments \union {None}]
  /\ size \in [Segments -> Nat]
  /\ nodes \in [Segments -> [Extent -> Nat]]
  /\ state \in [Objects -> {"none", "making", "owner", "opener"}]
  /\ name \in [Objects -> Names]
  /\ segment \in [Objects -> Segments \union {None}]
  /\ \A o \in Objects : state[o] = "none" <=> segment[o] = None
  /\ mapped \in [Objects -> Nat]
  /\ num_node_ \in [Objects -> 0 .. MaxNodes]
  /\ written \in [Objects -> Seq(Ids)]
  /\ left \subseteq Segments

(* Find gives the oldest node with that id that this object wrote since    *)
(* its last Reset, and none else: not one of another maker under the same  *)
(* name, of an earlier use of the array, or of the zeroed memory.          *)
FindsFirst ==
  \A o \in Objects, id \in Ids :
    Owns(o) =>
      LET found == Find(o, id)
          same == {i \in DOMAIN written[o] : written[o][i] = id}
      IN  IF same = {} THEN found = 0
          ELSE found \in same /\ \A i \in same : found <= i

(* No object, not even an opener, makes or leaves the array of another     *)
(* without memory behind it, though the sizes that Truncate gives do not   *)
(* add up and may take back what another object added.                     *)
ArrayBacked == \A o \in Objects : Live(o) => size[segment[o]] >= MaxNodes

(* A name stands for a segment whose maker still has it, or else whose     *)
(* maker was killed or failed: only then does a name stay for good, and    *)
(* every later maker of that name fail.                                    *)
NameHasMaker ==
  \A n \in Names :
    \/ names[n] = None
    \/ names[n] \in left
    \/ \E o \in Objects : state[o] \in {"making", "owner"} /\ segment[o] = names[n]

=============================================================================
