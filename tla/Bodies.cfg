CONSTANTS
    NCpu = 3
    NBodies = 2
    MaxBody = 6
    Linked <- Pair
    Touching <- Ties
    Cracking = {1}
    Splittable = {2}
    Lost = {1}
    Erasable = {3}
SPECIFICATION ScenesSpec
INVARIANTS CopiesKnowEachOther NoGhosts BodiesArrive IdsAgree NewBodiesKept
