CONSTANTS
    Releases = {r1, r2}
    Broken = {}
    None = None
    Sites <- EcsSites
SPECIFICATION Spec
INVARIANT InvalidatedAfterDeployment
