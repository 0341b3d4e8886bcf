--------------------------- MODULE MCUserService ----------------------------
(* Instances of UserService for TLC. *)
EXTENDS UserService, TLC

\* A client for each user, which goes by the user's name, or all of one user.
OneClientEach == [s \in Session |-> s]
AllOfOne      == [s \in Session |-> CHOOSE u \in User : TRUE]

Symmetry == Permutations(Thread) \cup Permutations(User)

=============================================================================
