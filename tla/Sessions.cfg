\* Two requests at a time, one user with two roles, two sessions, one password slot.
CONSTANTS
    Requests = {q1, q2}
    Users = {u}
    Nobody = nobody
    Tokens = {t1, t2}
    owner = owner
    customer = customer
    manage = manage
    Roles = {owner, customer}
    Permissions = {manage}
    Grants <- RoleGrants
    MaxChecks = 1
    Duration = 1
    MaxNow = 1
SPECIFICATION Spec
INVARIANTS SlotsHonest LogoutIsFinal ServedOnGrounds
PROPERTIES FollowsLife AllAnswered
